---- MODULE Spec2Model ----
(***************************************************************************)
(* CodeStory: ingestion of Notion pages into Supabase behind a Redis       *)
(* read-through cache.                                                     *)
(*                                                                         *)
(*   SpecTree  the two tree fetchers (lib/notion-sync.ts                   *)
(*             processBlocksRecursively, app/notion/[id]/page.tsx          *)
(*             processBlocks) over a family of remote block trees          *)
(*   SpecBulk  syncAllNotionPagesToSupabase and the per-page syncs it      *)
(*             launches                                                    *)
(*   Spec      the request handlers (page detail GET/DELETE, plain-text    *)
(*             GET, sync POST, analysis POST) over one page row and the    *)
(*             Redis keys of that page                                     *)
(***************************************************************************)
EXTENDS Integers, Sequences, FiniteSets, TLC

VARIABLES
    rdepth,     \* remote: number of block levels below the page root
    rshape,     \* remote: "full" (every block has children) or "chain"
    maxDepth,   \* configured depth limit handed to a fetcher
    rec,        \* one run of processBlocksRecursively
    pb,         \* one run of processBlocks (batched breadth-first)
    remoteVer,  \* remote: version of the page's title and block texts
    store,      \* Supabase table pages: notion_page_id -> row
    cache,      \* Redis: the page-detail keys and the page-list keys
    cacheDown,  \* every Redis command fails
    proc,       \* the running calls: request handlers, per-page syncs
    bulk,       \* one run of syncAllNotionPagesToSupabase
    hist,       \* history: the syncs and other mutations so far
    rmeta,      \* renderer input: the page metadata handed to assembleDocument
    rblocks,    \* renderer input: the stored block tree of the page
    rn,         \* number of renders of that input so far
    rout,       \* the document returned by the last render of that input
    rfirst,     \* history: the document returned by the first render of it
    rcarry,     \* the locals the last call of blocksToPlainText ended with
    properties, \* remote: the properties of a page, by name
    pageTitle   \* what extractPageTitle returned for them

treeVars == <<rdepth, rshape, maxDepth, rec, pb>>

sysVars == <<remoteVer, store, cache, cacheDown, proc, bulk, hist>>

renderVars == <<rmeta, rblocks, rn, rout, rfirst, rcarry>>

titleVars == <<properties, pageTitle>>

vars == <<rdepth, rshape, maxDepth, rec, pb,
          remoteVer, store, cache, cacheDown, proc, bulk, hist,
          rmeta, rblocks, rn, rout, rfirst, rcarry,
          properties, pageTitle>>

(***************************************************************************)
(* Bounds of the model.                                                    *)
(***************************************************************************)
MaxRemoteDepth == 4

\* The children of the root of a wide page: more than one batch.
MaxWidth == 12

MaxDepthCfg == 3
MaxFail == 1
MaxPages == 3
MaxVer == 2

MaxRequests == 3

MaxBlocks == 4
MaxRenders == 2

\* The blocks of a page without nesting.
MaxFlat == 3

\* The entries of a title, rich_text or multi_select property.
MaxEntries == 1

(***************************************************************************)
(* The remote block tree.  A block id is the path from the page root       *)
(* (<<>>) to the block; the remote answers a children-listing call with    *)
(* the ordered children of the block and marks has_children on a block     *)
(* that has some.                                                          *)
(***************************************************************************)
Root == <<>>

\* full: every block has two children; chain: the first child alone has
\* children; wide: the root has MaxWidth children, each the head of a line
\* of only children.
Shapes == {"full", "chain", "wide"}

Kids(n) ==
    IF Len(n) >= rdepth THEN <<>>
    ELSE IF rshape = "wide"
         THEN IF n = Root THEN [i \in 1..MaxWidth |-> <<i>>]
              ELSE <<Append(n, 1)>>
    ELSE IF rshape = "full" \/ n = Root \/ n[Len(n)] = 1
         THEN <<Append(n, 1), Append(n, 2)>>
         ELSE <<>>

HasChildren(n) == Kids(n) # <<>>

RECURSIVE NodesBelow(_)
NodesBelow(n) ==
    {n} \cup UNION {NodesBelow(Kids(n)[i]) : i \in 1..Len(Kids(n))}

RemoteBlocks == NodesBelow(Root) \ {Root}

BlockType(n) == "paragraph"

\* The text of a block changes with every edit of the page.
BlockText(n) == [v |-> remoteVer, at |-> n]

RECURSIVE Flatten(_)
Flatten(ss) == IF ss = <<>> THEN <<>> ELSE Head(ss) \o Flatten(Tail(ss))

Range(s) == {s[i] : i \in 1..Len(s)}


(***************************************************************************)
(* The store, the cache and the calls in progress.                         *)
(***************************************************************************)
Pages == 1..MaxPages

Procs == 1..MaxPages

Owners == {"A", "B"}

NoRow ==
    [present |-> FALSE, user_id |-> "none", ver |-> 0, blocks |-> <<>>,
     plain_text |-> 0, gemini_analysis |-> 0]

\* A row written by an earlier sync, before the page was last edited.
OldRow(o) ==
    [present |-> TRUE, user_id |-> o, ver |-> 0, blocks |-> <<>>,
     plain_text |-> 0, gemini_analysis |-> 0]

Miss == [hit |-> FALSE, ver |-> 0, blocks |-> <<>>]

EmptyCache ==
    [detail |-> [p \in Pages |-> Miss], list |-> [o \in Owners |-> FALSE]]

NoResp == [status |-> 0, ver |-> 0, blocks |-> <<>>, cause |-> "none"]

Idle ==
    [pc |-> "idle", kind |-> "none", pageId |-> 0, userId |-> "none",
     sync |-> FALSE, force |-> FALSE,
     ver |-> 0, blocks |-> <<>>, existing |-> FALSE, result |-> "none",
     wrote |-> FALSE, delDone |-> FALSE, seen |-> 0, page |-> NoRow,
     resp |-> NoResp]

\* started: the requests started so far; writers: the syncing, deleting and
\* analysing ones among them (2 stands for two or more); okVer, okUser: the
\* version written and the owner given to the last sync that returned true.
NoHist == [started |-> 0, writers |-> 0, okVer |-> 0, okUser |-> "none"]

BulkIdle ==
    [pc |-> "idle", userId |-> "none", configured |-> FALSE,
     listed |-> FALSE, n |-> 0, result |-> "none", listDels |-> 0]

\* The locals of a call of blocksToPlainText, as lines 181-184 set them, and
\* the numberingStack it was handed.
NoLocals ==
    [listCounter |-> 1, inNumberedList |-> FALSE, inBulletedList |-> FALSE,
     numberingStack |-> <<>>]

NoMeta == [pageTitle |-> "", Description |-> "", author |-> "", Date |-> ""]

\* No render is going on.
possibleTitleKeys == <<"Pages", "Pages ", "Name", "Title">>

\* The property is not among the properties of the page.
Absent == [type |-> "absent"]

NoProperties == [key \in {possibleTitleKeys[i] : i \in 1..4} |-> Absent]

\* extractPageTitle has not been called.
NotCalled == [called |-> FALSE]

TitleIdle ==
    /\ properties = NoProperties
    /\ pageTitle = NotCalled

RenderIdle ==
    /\ TitleIdle
    /\ rmeta = NoMeta
    /\ rblocks = <<>>
    /\ rn = 0
    /\ rout = <<>>
    /\ rfirst = <<>>
    /\ rcarry = NoLocals

(***************************************************************************)
(* lib/notion-sync.ts                                                      *)
(***************************************************************************)
RecognizedTypes ==
    {"paragraph", "heading_1", "heading_2", "heading_3",
     "bulleted_list_item", "numbered_list_item", "toggle"}

ExtractBlockContent(type, text) ==
    IF type \in RecognizedTypes THEN text
    ELSE <<"Unsupported block type: ", type>>

\* What a listing call that failed leaves behind (catch, lines 122-125).
ListFailed(blockId) ==
    [blocks |-> <<>>, calls |-> <<blockId>>, threw |-> FALSE]

\* The children kept for a block whose own fetch ended (try/catch, 107-115).
ChildResult(sub) ==
    IF sub.threw THEN [sub EXCEPT !.blocks = <<>>, !.threw = FALSE] ELSE sub

\* processBlocksRecursively with both catch blocks gone: a failed listing call
\* anywhere below ends the whole call by throwing.
RECURSIVE ProcessBlocksRecursively_FailFast(_, _, _, _)
ProcessBlocksRecursively_FailFast(blockId, depth, maxD, F) ==
    IF depth >= maxD THEN [blocks |-> <<>>, calls |-> <<>>, threw |-> FALSE]
    ELSE IF blockId \in F
         THEN [blocks |-> <<>>, calls |-> <<blockId>>, threw |-> TRUE]
    ELSE LET ks == Kids(blockId)
             sub == [i \in 1..Len(ks) |->
                       IF HasChildren(ks[i]) /\ depth < maxD
                       THEN ProcessBlocksRecursively_FailFast(
                                ks[i], depth + 1, maxD, F)
                       ELSE [blocks |-> <<>>, calls |-> <<>>, threw |-> FALSE]]
             bad == \E i \in 1..Len(ks) : sub[i].threw
         IN [blocks |-> IF bad THEN <<>>
                        ELSE [i \in 1..Len(ks) |->
                                [id |-> ks[i],
                                 type |-> BlockType(ks[i]),
                                 content |-> ExtractBlockContent(
                                     BlockType(ks[i]), BlockText(ks[i])),
                                 children |-> sub[i].blocks]],
             calls |-> <<blockId>>
                       \o Flatten([i \in 1..Len(ks) |-> sub[i].calls]),
             threw |-> bad]

\* processBlocksRecursively(blockId, depth, maxDepth) with the listing calls
\* of the blocks in F failing.  calls lists the blocks whose children were
\* asked for, in the order the calls are issued; threw says whether the
\* call ended by throwing.
RECURSIVE ProcessBlocksRecursively(_, _, _, _)
ProcessBlocksRecursively(blockId, depth, maxD, F) ==
    IF depth >= maxD THEN [blocks |-> <<>>, calls |-> <<>>, threw |-> FALSE]
    ELSE IF blockId \in F THEN ListFailed(blockId)
    ELSE LET ks == Kids(blockId)
             sub == [i \in 1..Len(ks) |->
                       IF HasChildren(ks[i]) /\ depth < maxD
                       THEN ChildResult(
                              ProcessBlocksRecursively(ks[i], depth + 1, maxD, F))
                       ELSE [blocks |-> <<>>, calls |-> <<>>, threw |-> FALSE]]
         IN [blocks |-> [i \in 1..Len(ks) |->
                           [id |-> ks[i],
                            type |-> BlockType(ks[i]),
                            content |-> ExtractBlockContent(BlockType(ks[i]),
                                                            BlockText(ks[i])),
                            children |-> sub[i].blocks]],
             calls |-> <<blockId>>
                       \o Flatten([i \in 1..Len(ks) |-> sub[i].calls]),
             threw |-> FALSE]

\* Sets of at most k blocks whose listing call fails.
Listable == {n \in NodesBelow(Root) : n = Root \/ HasChildren(n)}

RECURSIVE SetsUpTo(_)
SetsUpTo(k) ==
    IF k = 0 THEN {{}}
    ELSE LET P == SetsUpTo(k - 1)
         IN P \cup {S \cup {x} : S \in P, x \in Listable}

RecIdle == [pc |-> "idle"]

PbIdle == [pc |-> "idle"]

\* One call processBlocksRecursively(pageId) as syncNotionPageToSupabase
\* makes it (line 380), here with the depth limit as a parameter.
Rec_Run ==
    /\ rec.pc = "idle" /\ pb.pc = "idle"
    /\ \E F \in SetsUpTo(MaxFail) :
         rec' = [pc |-> "done", F |-> F,
                 out |-> ProcessBlocksRecursively(Root, 0, maxDepth, F)]
    /\ UNCHANGED <<rdepth, rshape, maxDepth, pb>>
    /\ UNCHANGED sysVars
    /\ UNCHANGED renderVars
    /\ UNCHANGED titleVars

(***************************************************************************)
(* app/notion/[id]/page.tsx: processBlocks                                 *)
(***************************************************************************)
BATCH_SIZE == 10

Min(a, b) == IF a < b THEN a ELSE b

\* The whole array as one chunk.
ChunkArray_Whole(array, size) == <<array>>

RECURSIVE ChunkArray(_, _)
\* for (i = 0; i < array.length; i += size) chunks.push(array.slice(i, i + size))
ChunkArray(array, size) ==
    IF array = <<>> THEN <<>>
    ELSE <<SubSeq(array, 1, Min(size, Len(array)))>>
         \o ChunkArray(SubSeq(array, size + 1, Len(array)), size)

\* while (blocksToFetch.length > 0 && depth <= MAX_DEPTH)
PB_Continue(blocksToFetch, depth, maxD) ==
    Len(blocksToFetch) > 0 /\ depth <= maxD

\* if (block.has_children && depth < MAX_DEPTH) nextLevelBlocks.push(block.id)
PB_Enqueue(block, depth, maxD) == HasChildren(block) /\ depth < maxD

\* The loop without its depth++.
PB_NextDepth_Stuck(depth) == depth

\* depth++
PB_NextDepth(depth) == depth + 1

RECURSIVE ProcessBlockWithChildren(_, _)
ProcessBlockWithChildren(block, childrenMap) ==
    LET base == [type |-> BlockType(block),
                 content |-> ExtractBlockContent(BlockType(block),
                                                 BlockText(block))]
    IN IF HasChildren(block) /\ block \in DOMAIN childrenMap
       THEN LET cs == childrenMap[block]
            IN [type |-> base.type, content |-> base.content,
                children |-> [i \in 1..Len(cs) |->
                                ProcessBlockWithChildren(cs[i], childrenMap)]]
       ELSE base

PB_Start ==
    /\ pb.pc = "idle" /\ rec.pc = "idle"
    /\ pb' = [pc |-> "loop", blocksToFetch |-> <<Root>>, depth |-> 0,
              batches |-> <<>>, batch |-> <<>>, inflight |-> {},
              batchResults |-> <<>>, nextLevelBlocks |-> <<>>,
              childrenMap |-> <<>>, calls |-> <<>>, overtaken |-> FALSE]
    /\ UNCHANGED <<rdepth, rshape, maxDepth, rec>>
    /\ UNCHANGED sysVars
    /\ UNCHANGED renderVars
    /\ UNCHANGED titleVars

\* The loop test holds: cut the frontier into batches.
PB_BeginLevel ==
    /\ pb.pc = "loop"
    /\ PB_Continue(pb.blocksToFetch, pb.depth, maxDepth)
    /\ pb' = [pb EXCEPT !.pc = "batches",
                        !.batches = ChunkArray(pb.blocksToFetch, BATCH_SIZE),
                        !.nextLevelBlocks = <<>>]
    /\ UNCHANGED <<rdepth, rshape, maxDepth, rec>>
    /\ UNCHANGED sysVars
    /\ UNCHANGED renderVars
    /\ UNCHANGED titleVars

\* Promise.all(batch.map(list)): every call of the batch is issued at once.
PB_IssueBatch ==
    /\ pb.pc = "batches"
    /\ pb.batches # <<>>
    /\ LET batch == Head(pb.batches)
       IN pb' = [pb EXCEPT
                   !.pc = "await",
                   !.batch = batch,
                   !.batches = Tail(pb.batches),
                   !.inflight = 1..Len(batch),
                   !.batchResults = [i \in 1..Len(batch) |-> <<>>],
                   !.calls = pb.calls \o batch]
    /\ UNCHANGED <<rdepth, rshape, maxDepth, rec>>
    /\ UNCHANGED sysVars
    /\ UNCHANGED renderVars
    /\ UNCHANGED titleVars

\* The place of a result in the array, were it the order of arrival.
PromiseAllSlot_Arrival(n, inflight, i) == n - Cardinality(inflight) + 1

\* Promise.all resolves to the results in the order of the promises it was
\* given, whatever the order in which they settle.
PromiseAllSlot(n, inflight, i) == i

\* One listing call of the batch in flight answers.  overtaken notes that a
\* call has answered before one issued ahead of it in the batch.
PB_CallOk ==
    /\ pb.pc = "await"
    /\ \E i \in pb.inflight :
         pb' = [pb EXCEPT
                  !.inflight = pb.inflight \ {i},
                  !.batchResults[PromiseAllSlot(Len(pb.batch), pb.inflight, i)]
                      = Kids(pb.batch[i]),
                  !.overtaken = @ \/ \E j \in pb.inflight : j < i]
    /\ UNCHANGED <<rdepth, rshape, maxDepth, rec>>
    /\ UNCHANGED sysVars
    /\ UNCHANGED renderVars
    /\ UNCHANGED titleVars

\* One listing call rejects: Promise.all rejects and nothing in processBlocks
\* catches it.
PB_CallFail ==
    /\ pb.pc = "await"
    /\ \E i \in pb.inflight :
         pb' = [pc |-> "threw", failed |-> pb.batch[i], calls |-> pb.calls,
                depth |-> pb.depth]
    /\ UNCHANGED <<rdepth, rshape, maxDepth, rec>>
    /\ UNCHANGED sysVars
    /\ UNCHANGED renderVars
    /\ UNCHANGED titleVars

\* batch.forEach(...): record the children of each parent, queue the blocks
\* that have children.  The pause after a batch (batches.length > 3) changes
\* no state.
PB_ProcessBatch ==
    /\ pb.pc = "await"
    /\ pb.inflight = {}
    /\ LET n == Len(pb.batch)
           queued == [i \in 1..n |->
                        SelectSeq(pb.batchResults[i],
                                  LAMBDA b : PB_Enqueue(b, pb.depth, maxDepth))]
           map == [p \in DOMAIN pb.childrenMap \cup Range(pb.batch) |->
                     IF \E i \in 1..n : pb.batch[i] = p
                     THEN pb.batchResults[CHOOSE i \in 1..n : pb.batch[i] = p]
                     ELSE pb.childrenMap[p]]
       IN pb' = [pb EXCEPT
                   !.pc = "batches",
                   !.nextLevelBlocks = pb.nextLevelBlocks \o Flatten(queued),
                   !.childrenMap = map]
    /\ UNCHANGED <<rdepth, rshape, maxDepth, rec>>
    /\ UNCHANGED sysVars
    /\ UNCHANGED renderVars
    /\ UNCHANGED titleVars

\* End of the for loop over the batches of a level.
PB_EndLevel ==
    /\ pb.pc = "batches"
    /\ pb.batches = <<>>
    /\ pb' = [pb EXCEPT !.pc = "loop",
                        !.blocksToFetch = pb.nextLevelBlocks,
                        !.depth = PB_NextDepth(pb.depth)]
    /\ UNCHANGED <<rdepth, rshape, maxDepth, rec>>
    /\ UNCHANGED sysVars
    /\ UNCHANGED renderVars
    /\ UNCHANGED titleVars

\* The loop test fails: assemble the tree top-down from childrenMap.
PB_Assemble ==
    /\ pb.pc = "loop"
    /\ ~PB_Continue(pb.blocksToFetch, pb.depth, maxDepth)
    /\ LET top == IF Root \in DOMAIN pb.childrenMap
                  THEN pb.childrenMap[Root] ELSE <<>>
       IN pb' = [pc |-> "done", calls |-> pb.calls, depth |-> pb.depth,
                 overtaken |-> pb.overtaken,
                 out |-> [i \in 1..Len(top) |->
                            ProcessBlockWithChildren(top[i], pb.childrenMap)]]
    /\ UNCHANGED <<rdepth, rshape, maxDepth, rec>>
    /\ UNCHANGED sysVars
    /\ UNCHANGED renderVars
    /\ UNCHANGED titleVars

InitTree ==
    /\ rdepth \in 0..MaxRemoteDepth
    /\ rshape \in Shapes
    /\ maxDepth \in 0..MaxDepthCfg
    /\ rec = RecIdle
    /\ pb = PbIdle
    /\ remoteVer = 1
    /\ store = [p \in Pages |-> NoRow]
    /\ cache = EmptyCache
    /\ cacheDown = FALSE
    /\ proc = [i \in Procs |-> Idle]
    /\ bulk = BulkIdle
    /\ hist = NoHist
    /\ RenderIdle

NextTree ==
    \/ Rec_Run
    \/ PB_Start
    \/ PB_BeginLevel
    \/ PB_IssueBatch
    \/ PB_CallOk
    \/ PB_CallFail
    \/ PB_ProcessBatch
    \/ PB_EndLevel
    \/ PB_Assemble

SpecTree == InitTree /\ [][NextTree]_vars

(***************************************************************************)
(* lib/redis.ts                                                            *)
(***************************************************************************)
\* redisClient.del(key): rejects when Redis is down.
RedisDelDetail(c, pageId) ==
    IF cacheDown THEN [cache |-> c, err |-> TRUE]
    ELSE [cache |-> [c EXCEPT !.detail[pageId] = Miss], err |-> FALSE]

RedisDelList(c, userId) ==
    IF cacheDown THEN [cache |-> c, err |-> TRUE]
    ELSE [cache |-> [c EXCEPT !.list[userId] = FALSE], err |-> FALSE]

\* cacheUtils.delete(key): the rejection is logged and swallowed.
CacheUtilsDelete(r) == [r EXCEPT !.err = FALSE]

(***************************************************************************)
(* lib/notion-sync.ts: syncNotionPageToSupabase                            *)
(***************************************************************************)
DefaultMaxDepth == 3

\* Where a call of syncNotionPageToSupabase returns to.
AfterSync(kind) ==
    CASE kind = "get" -> "g_del"
      [] kind = "syncpost" -> "p_del"
      [] OTHER -> "s_done"

\* The catch block without its return false: the error leaves the function.
SyncFailed_Rethrow(r) ==
    [r EXCEPT !.pc = AfterSync(r.kind), !.result = "threw"]

\* catch (error) { ...; return false; }
SyncFailed(r) == [r EXCEPT !.pc = AfterSync(r.kind), !.result = "false"]

\* pageData, as update() and insert() write it.
PageDataRow(r, old) ==
    [present |-> TRUE, user_id |-> r.userId, ver |-> r.ver,
     blocks |-> r.blocks, plain_text |-> r.ver,
     gemini_analysis |-> old.gemini_analysis]

SyncedOk(h, r) == [h EXCEPT !.okVer = r.ver, !.okUser = r.userId]

\* A call starts: notion.pages.retrieve is issued.
SyncBegin(kind, pageId, userId) ==
    [Idle EXCEPT !.pc = "s_retrieve", !.kind = kind, !.pageId = pageId,
                 !.userId = userId]

\* notion.pages.retrieve answers or fails.
S_Retrieve ==
    /\ \E i \in Procs :
         /\ proc[i].pc = "s_retrieve"
         /\ \E ok \in BOOLEAN :
              proc' = [proc EXCEPT ![i] =
                         IF ok THEN [@ EXCEPT !.pc = "s_blocks",
                                              !.ver = remoteVer]
                         ELSE SyncFailed(@)]
    /\ UNCHANGED <<remoteVer, store, cache, cacheDown, bulk, hist>>
    /\ UNCHANGED treeVars
    /\ UNCHANGED renderVars
    /\ UNCHANGED titleVars

\* processBlocksRecursively(pageId) ends.
S_Blocks ==
    /\ \E i \in Procs :
         /\ proc[i].pc = "s_blocks"
         /\ \E F \in {{}, {Root}} :
              LET out == ProcessBlocksRecursively(Root, 0, DefaultMaxDepth, F)
              IN proc' = [proc EXCEPT ![i] =
                            IF out.threw THEN SyncFailed(@)
                            ELSE [@ EXCEPT !.pc = "s_select",
                                           !.blocks = out.blocks]]
    /\ UNCHANGED <<remoteVer, store, cache, cacheDown, bulk, hist>>
    /\ UNCHANGED treeVars
    /\ UNCHANGED renderVars
    /\ UNCHANGED titleVars

\* select('id').eq('notion_page_id', pageId).single(): an error leaves
\* existingPage null like a missing row does.
S_Select ==
    /\ \E i \in Procs :
         /\ proc[i].pc = "s_select"
         /\ \E ok \in BOOLEAN :
              proc' = [proc EXCEPT ![i] =
                         [@ EXCEPT !.pc = "s_write",
                                   !.existing =
                                       ok /\ store[proc[i].pageId].present]]
    /\ UNCHANGED <<remoteVer, store, cache, cacheDown, bulk, hist>>
    /\ UNCHANGED treeVars
    /\ UNCHANGED renderVars
    /\ UNCHANGED titleVars

\* success = true with the invalidation left out: return success at once.
SyncWritten_NoInvalidate(r) ==
    [r EXCEPT !.pc = AfterSync(r.kind), !.wrote = TRUE, !.result = "true"]

\* The write without its success = true: return success returns false.
SyncWritten_NoSuccess(r) ==
    [r EXCEPT !.pc = AfterSync(r.kind), !.wrote = TRUE, !.result = "false"]

\* success = true; if (success) await cacheUtils.invalidatePageCache(...)
SyncWritten(r) == [r EXCEPT !.pc = "s_invd", !.wrote = TRUE]

\* update(pageData).eq('notion_page_id', pageId), or insert(pageData).
\* notion_page_id is UNIQUE: an insert beside an existing row is refused.
S_Write ==
    /\ \E i \in Procs :
         /\ proc[i].pc = "s_write"
         /\ LET r == proc[i]
                old == store[r.pageId]
            IN \E ok \in BOOLEAN :
                 IF ~ok \/ (~r.existing /\ old.present)
                 THEN /\ proc' = [proc EXCEPT ![i] = SyncFailed(r)]
                      /\ store' = store
                 ELSE /\ proc' = [proc EXCEPT ![i] = SyncWritten(r)]
                      /\ store' = IF r.existing /\ ~old.present THEN store
                                  ELSE [store EXCEPT ![r.pageId] =
                                          PageDataRow(r, old)]
    /\ UNCHANGED <<remoteVer, cache, cacheDown, bulk, hist>>
    /\ UNCHANGED treeVars
    /\ UNCHANGED renderVars
    /\ UNCHANGED titleVars

\* invalidatePageCache: this.delete(getPageDetailKey(pageId)).  Had delete
\* thrown, the catch block of invalidatePageCache would end the invalidation
\* here and the sync would return true.
S_InvalidateDetail ==
    /\ \E i \in Procs :
         /\ proc[i].pc = "s_invd"
         /\ LET d == CacheUtilsDelete(RedisDelDetail(cache, proc[i].pageId))
            IN /\ cache' = d.cache
               /\ proc' = [proc EXCEPT ![i] =
                             IF d.err
                             THEN [@ EXCEPT !.pc = AfterSync(proc[i].kind),
                                            !.delDone = proc[i].wrote,
                                            !.result = "true"]
                             ELSE [@ EXCEPT !.pc = "s_invl",
                                            !.delDone = proc[i].wrote]]
               /\ hist' = IF d.err THEN SyncedOk(hist, proc[i]) ELSE hist
    /\ UNCHANGED <<remoteVer, store, cacheDown, bulk>>
    /\ UNCHANGED treeVars
    /\ UNCHANGED renderVars
    /\ UNCHANGED titleVars

\* Whether invalidatePageCache(pageId, userId) goes on to the list key.
InvalidatesListToo_Never(userId) == FALSE

InvalidatesListToo(userId) == userId # "none"

\* invalidatePageCache: if (userId) this.delete(getPageListKey(userId)); then
\* syncNotionPageToSupabase returns true.
S_InvalidateList ==
    /\ \E i \in Procs :
         /\ proc[i].pc = "s_invl"
         /\ LET u == proc[i].userId
                d == IF InvalidatesListToo(u)
                     THEN CacheUtilsDelete(RedisDelList(cache, u))
                     ELSE [cache |-> cache, err |-> FALSE]
            IN /\ cache' = d.cache
               /\ proc' = [proc EXCEPT ![i] =
                             [@ EXCEPT !.pc = AfterSync(proc[i].kind),
                                       !.result = "true"]]
               /\ bulk' = IF InvalidatesListToo(u) /\ bulk.pc = "wait"
                          THEN [bulk EXCEPT !.listDels = @ + 1]
                          ELSE bulk
               /\ hist' = SyncedOk(hist, proc[i])
    /\ UNCHANGED <<remoteVer, store, cacheDown>>
    /\ UNCHANGED treeVars
    /\ UNCHANGED renderVars
    /\ UNCHANGED titleVars

(***************************************************************************)
(* lib/notion-sync.ts: syncAllNotionPagesToSupabase                        *)
(***************************************************************************)
\* return successCount > 0, with  > 0  read as  = the number of pages.
BulkSuccess_All(results) ==
    \A i \in DOMAIN results : results[i] = "true"

\* successCount = results.filter(Boolean).length; return successCount > 0
BulkSuccess(results) ==
    Cardinality({i \in DOMAIN results : results[i] = "true"}) > 0

\* The call with NOTION_DATABASE_ID unset: return false at once.
B_NotConfigured ==
    /\ bulk.pc = "idle"
    /\ \E u \in Owners :
         bulk' = [bulk EXCEPT !.pc = "done", !.userId = u,
                              !.result = "false", !.configured = FALSE]
    /\ UNCHANGED <<remoteVer, store, cache, cacheDown, proc, hist>>
    /\ UNCHANGED treeVars
    /\ UNCHANGED renderVars
    /\ UNCHANGED titleVars

\* The call with the id set: notion.databases.query is issued.
B_Start ==
    /\ bulk.pc = "idle"
    /\ \E u \in Owners :
         bulk' = [bulk EXCEPT !.pc = "query", !.userId = u,
                              !.configured = TRUE]
    /\ UNCHANGED <<remoteVer, store, cache, cacheDown, proc, hist>>
    /\ UNCHANGED treeVars
    /\ UNCHANGED renderVars
    /\ UNCHANGED titleVars

\* The query fails: the catch block returns false.
B_QueryFailed ==
    /\ bulk.pc = "query"
    /\ bulk' = [bulk EXCEPT !.pc = "done", !.result = "false"]
    /\ UNCHANGED <<remoteVer, store, cache, cacheDown, proc, hist>>
    /\ UNCHANGED treeVars
    /\ UNCHANGED renderVars
    /\ UNCHANGED titleVars

\* The query answers with n pages: results.map starts a sync of each.
B_Query ==
    /\ bulk.pc = "query"
    /\ \E n \in 0..MaxPages :
         /\ bulk' = [bulk EXCEPT !.pc = "wait", !.n = n, !.listed = TRUE]
         /\ proc' = [i \in Procs |->
                       IF i <= n THEN SyncBegin("task", i, bulk.userId)
                       ELSE proc[i]]
    /\ UNCHANGED <<remoteVer, store, cache, cacheDown, hist>>
    /\ UNCHANGED treeVars
    /\ UNCHANGED renderVars
    /\ UNCHANGED titleVars

\* Promise.all(syncPromises) settles: it rejects if a sync threw, and the
\* catch block returns false; otherwise invalidateUserCache is called.
B_Join ==
    /\ bulk.pc = "wait"
    /\ \A i \in 1..bulk.n : proc[i].pc = "s_done"
    /\ bulk' = IF \E i \in 1..bulk.n : proc[i].result = "threw"
               THEN [bulk EXCEPT !.pc = "done", !.result = "false"]
               ELSE [bulk EXCEPT !.pc = "inv"]
    /\ UNCHANGED <<remoteVer, store, cache, cacheDown, proc, hist>>
    /\ UNCHANGED treeVars
    /\ UNCHANGED renderVars
    /\ UNCHANGED titleVars

\* invalidateUserCache(userId) ends; return successCount > 0.
B_InvalidateUser ==
    /\ bulk.pc = "inv"
    /\ LET d == CacheUtilsDelete(RedisDelList(cache, bulk.userId))
           results == [i \in 1..bulk.n |-> proc[i].result]
       IN /\ cache' = d.cache
          /\ bulk' = [bulk EXCEPT
                        !.pc = "done",
                        !.listDels = @ + 1,
                        !.result = IF BulkSuccess(results) THEN "true"
                                   ELSE "false"]
    /\ UNCHANGED <<remoteVer, store, cacheDown, proc, hist>>
    /\ UNCHANGED treeVars
    /\ UNCHANGED renderVars
    /\ UNCHANGED titleVars

InitSystem ==
    /\ rdepth = 1
    /\ rshape = "full"
    /\ maxDepth = DefaultMaxDepth
    /\ rec = RecIdle
    /\ pb = PbIdle
    /\ remoteVer = 1
    /\ cache = EmptyCache
    /\ cacheDown \in BOOLEAN
    /\ proc = [i \in Procs |-> Idle]
    /\ bulk = BulkIdle
    /\ hist = NoHist

InitBulk ==
    /\ InitSystem
    /\ RenderIdle
    /\ \E r \in {NoRow, OldRow("A")} : store = [p \in Pages |-> r]

NextBulk ==
    \/ B_NotConfigured
    \/ B_Start
    \/ B_QueryFailed
    \/ B_Query
    \/ B_Join
    \/ B_InvalidateUser
    \/ S_Retrieve
    \/ S_Blocks
    \/ S_Select
    \/ S_Write
    \/ S_InvalidateDetail
    \/ S_InvalidateList

SpecBulk == InitBulk /\ [][NextBulk]_vars

(***************************************************************************)
(* The request handlers.  Every request is about page P; a handler runs in *)
(* a slot of proc, one step per awaited call, and leaves its response in   *)
(* resp.  cause names what made an error response.                         *)
(***************************************************************************)
P == 1

\* The slot of the request that writes and the slot of a request that only
\* reads: one of each is in flight at a time.
Writer == 1

Reader == 2

Slots == {Writer, Reader}

Sat(n) == IF n >= 2 THEN 2 ELSE n

\* One more request has started; writes tells whether it is a writing one.
Started(h, writes) ==
    [h EXCEPT !.started = @ + 1,
              !.writers = IF writes THEN Sat(@ + 1) ELSE @]

\* The handler returns: its locals are gone, what is left is the request,
\* what it did to the store and the detail key, and the response.
Returned(r) ==
    [Idle EXCEPT !.pc = "done", !.kind = r.kind, !.pageId = r.pageId,
                 !.userId = r.userId, !.sync = r.sync,
                 !.wrote = r.wrote, !.delDone = r.delDone, !.seen = r.seen]

Respond(r, status, cause) ==
    [Returned(r) EXCEPT !.resp = [status |-> status, ver |-> 0,
                                  blocks |-> <<>>, cause |-> cause]]

RespondPage(r, data) ==
    [Returned(r) EXCEPT !.resp = [status |-> 200, ver |-> data.ver,
                                  blocks |-> data.blocks, cause |-> "none"]]

\* The row as the handlers hand it on (pageData): no owner in it.
PageData(row) == [hit |-> TRUE, ver |-> row.ver, blocks |-> row.blocks]

\* .eq('notion_page_id', pageId).eq('user_id', internalUserId).single()
RowOf(pageId, userId) ==
    IF store[pageId].present /\ store[pageId].user_id = userId
    THEN store[pageId] ELSE NoRow

\* redisClient.get(key): rejects when Redis is down.
RedisGetDetail(pageId) ==
    IF cacheDown THEN [value |-> Miss, err |-> TRUE]
    ELSE [value |-> cache.detail[pageId], err |-> FALSE]

\* redisClient.set(key, value, 'EX', ttl)
RedisSetDetail(c, pageId, data) ==
    IF cacheDown THEN [cache |-> c, err |-> TRUE]
    ELSE [cache |-> [c EXCEPT !.detail[pageId] = data], err |-> FALSE]

(***************************************************************************)
(* app/api/notion/[id]/route.tsx: GET                                      *)
(***************************************************************************)
\* getCachedPage: a rejection is logged and read as a miss.
GetCachedPage(pageId) == [RedisGetDetail(pageId) EXCEPT !.err = FALSE]

\* cachePage: a rejection is logged and swallowed.
CachePage(c, pageId, data) ==
    [RedisSetDetail(c, pageId, data) EXCEPT !.err = FALSE]

\* GET /api/notion/P[?sync=true | ?force_refresh=true] by owner u.  With sync
\* set, force_refresh changes nothing (!forceRefresh && !shouldSync), so the
\* two flags are not set together.  A read notes in seen what the last sync
\* that returned true before it had written.
G_Start ==
    /\ hist.started < MaxRequests
    /\ \E u \in Owners, sync \in BOOLEAN, force \in BOOLEAN :
       LET i == IF sync THEN Writer ELSE Reader IN
         /\ ~(sync /\ force)
         /\ proc[i].pc = "idle"
         /\ LET r0 == IF sync THEN SyncBegin("get", P, u)
                      ELSE [Idle EXCEPT !.kind = "get", !.pageId = P,
                                        !.userId = u,
                                        !.pc = IF force THEN "g_select"
                                               ELSE "g_cget"]
            IN proc' = [proc EXCEPT ![i] =
                          [r0 EXCEPT !.sync = sync, !.force = force,
                                     !.seen = IF sync THEN 0
                                              ELSE hist.okVer]]
         /\ hist' = Started(hist, sync)
    /\ UNCHANGED <<remoteVer, store, cache, cacheDown, bulk>>
    /\ UNCHANGED treeVars
    /\ UNCHANGED renderVars
    /\ UNCHANGED titleVars

\* The sync has returned (its result is only logged); then
\* await redisClient.del(getPageCacheKey(pageId)), outside any inner try.
G_DelAfterSync ==
    /\ \E i \in Slots :
         /\ proc[i].pc = "g_del"
         /\ LET r == proc[i]
                d == RedisDelDetail(cache, r.pageId)
            IN /\ cache' = d.cache
               /\ proc' = [proc EXCEPT ![i] =
                             IF r.result = "threw" THEN Respond(r, 500, "sync")
                             ELSE IF d.err THEN Respond(r, 500, "cache")
                             ELSE [r EXCEPT !.pc = "g_select",
                                            !.delDone = r.wrote]]
    /\ UNCHANGED <<remoteVer, store, cacheDown, bulk, hist>>
    /\ UNCHANGED treeVars
    /\ UNCHANGED renderVars
    /\ UNCHANGED titleVars

\* getCachedPage answers: a hit is returned as it is.
G_CacheGet ==
    /\ \E i \in Slots :
         /\ proc[i].pc = "g_cget"
         /\ LET r == proc[i]
                g == GetCachedPage(r.pageId)
            IN proc' = [proc EXCEPT ![i] =
                          IF g.err THEN Respond(r, 500, "cache")
                          ELSE IF g.value.hit THEN RespondPage(r, g.value)
                          ELSE [r EXCEPT !.pc = "g_select"]]
    /\ UNCHANGED <<remoteVer, store, cache, cacheDown, bulk, hist>>
    /\ UNCHANGED treeVars
    /\ UNCHANGED renderVars
    /\ UNCHANGED titleVars

\* The select answers: an error is a 500, no row (PGRST116) a 404; a row is
\* transformed and handed to cachePage.
G_Select ==
    /\ \E i \in Slots :
         /\ proc[i].pc = "g_select"
         /\ LET r == proc[i]
                row == RowOf(r.pageId, r.userId)
            IN \E ok \in BOOLEAN :
                 proc' = [proc EXCEPT ![i] =
                            IF ~ok THEN Respond(r, 500, "store")
                            ELSE IF ~row.present THEN Respond(r, 404, "notfound")
                            ELSE [r EXCEPT !.pc = "g_cset", !.page = row]]
    /\ UNCHANGED <<remoteVer, store, cache, cacheDown, bulk, hist>>
    /\ UNCHANGED treeVars
    /\ UNCHANGED renderVars
    /\ UNCHANGED titleVars

\* cachePage ends; the page is returned.
G_CacheSet ==
    /\ \E i \in Slots :
         /\ proc[i].pc = "g_cset"
         /\ LET r == proc[i]
                c == CachePage(cache, r.pageId, PageData(r.page))
            IN /\ cache' = c.cache
               /\ proc' = [proc EXCEPT ![i] =
                             IF c.err THEN Respond(r, 500, "cache")
                             ELSE RespondPage(r, PageData(r.page))]
    /\ UNCHANGED <<remoteVer, store, cacheDown, bulk, hist>>
    /\ UNCHANGED treeVars
    /\ UNCHANGED renderVars
    /\ UNCHANGED titleVars

(***************************************************************************)
(* app/api/notion/[id]/route.tsx: DELETE                                   *)
(***************************************************************************)
D_Start ==
    /\ \E u \in Owners :
         /\ proc[Writer].pc = "idle"
         /\ proc' = [proc EXCEPT ![Writer] =
                       [Idle EXCEPT !.kind = "delete", !.pageId = P,
                                    !.userId = u, !.pc = "d_delete"]]
    /\ hist.started < MaxRequests
    /\ hist' = Started(hist, TRUE)
    /\ UNCHANGED <<remoteVer, store, cache, cacheDown, bulk>>
    /\ UNCHANGED treeVars
    /\ UNCHANGED renderVars
    /\ UNCHANGED titleVars

\* delete().eq('notion_page_id', pageId).eq('user_id', internalUserId)
D_Delete ==
    /\ \E i \in Slots :
         /\ proc[i].pc = "d_delete"
         /\ LET r == proc[i]
            IN \E ok \in BOOLEAN :
                 IF ~ok
                 THEN /\ proc' = [proc EXCEPT ![i] = Respond(r, 500, "store")]
                      /\ store' = store
                 ELSE /\ proc' = [proc EXCEPT ![i] =
                                    [r EXCEPT !.pc = "d_deld", !.wrote = TRUE]]
                      /\ store' = IF RowOf(r.pageId, r.userId).present
                                  THEN [store EXCEPT ![r.pageId] = NoRow]
                                  ELSE store
    /\ UNCHANGED <<remoteVer, cache, cacheDown, bulk, hist>>
    /\ UNCHANGED treeVars
    /\ UNCHANGED renderVars
    /\ UNCHANGED titleVars

\* try { await redisClient.del(getPageCacheKey(pageId)); ... }: a rejection
\* skips the second del and is logged.
D_DelDetail ==
    /\ \E i \in Slots :
         /\ proc[i].pc = "d_deld"
         /\ LET r == proc[i]
                d == RedisDelDetail(cache, r.pageId)
            IN /\ cache' = d.cache
               /\ proc' = [proc EXCEPT ![i] =
                             IF d.err
                             THEN [Respond(r, 200, "none")
                                     EXCEPT !.delDone = r.wrote]
                             ELSE [r EXCEPT !.pc = "d_dell",
                                            !.delDone = r.wrote]]
    /\ UNCHANGED <<remoteVer, store, cacheDown, bulk, hist>>
    /\ UNCHANGED treeVars
    /\ UNCHANGED renderVars
    /\ UNCHANGED titleVars

\* await redisClient.del(`notion_pages:${internalUserId}`); then success.
D_DelList ==
    /\ \E i \in Slots :
         /\ proc[i].pc = "d_dell"
         /\ LET r == proc[i]
                d == RedisDelList(cache, r.userId)
            IN /\ cache' = d.cache
               /\ proc' = [proc EXCEPT ![i] = Respond(r, 200, "none")]
    /\ UNCHANGED <<remoteVer, store, cacheDown, bulk, hist>>
    /\ UNCHANGED treeVars
    /\ UNCHANGED renderVars
    /\ UNCHANGED titleVars

(***************************************************************************)
(* app/api/notion/plain-text/[id]/route.ts: GET                            *)
(***************************************************************************)
T_Start ==
    /\ \E u \in Owners :
         /\ proc[Reader].pc = "idle"
         /\ proc' = [proc EXCEPT ![Reader] =
                       [Idle EXCEPT !.kind = "plain", !.pageId = P,
                                    !.userId = u, !.pc = "t_cget"]]
    /\ hist.started < MaxRequests
    /\ hist' = Started(hist, FALSE)
    /\ UNCHANGED <<remoteVer, store, cache, cacheDown, bulk>>
    /\ UNCHANGED treeVars
    /\ UNCHANGED renderVars
    /\ UNCHANGED titleVars

\* await redisClient.get(cacheKey), inside the handler's try only.
T_CacheGet ==
    /\ \E i \in Slots :
         /\ proc[i].pc = "t_cget"
         /\ LET r == proc[i]
                g == RedisGetDetail(r.pageId)
            IN proc' = [proc EXCEPT ![i] =
                          IF g.err THEN Respond(r, 500, "cache")
                          ELSE IF g.value.hit THEN RespondPage(r, g.value)
                          ELSE [r EXCEPT !.pc = "t_select"]]
    /\ UNCHANGED <<remoteVer, store, cache, cacheDown, bulk, hist>>
    /\ UNCHANGED treeVars
    /\ UNCHANGED renderVars
    /\ UNCHANGED titleVars

T_Select ==
    /\ \E i \in Slots :
         /\ proc[i].pc = "t_select"
         /\ LET r == proc[i]
                row == RowOf(r.pageId, r.userId)
            IN \E ok \in BOOLEAN :
                 proc' = [proc EXCEPT ![i] =
                            IF ~ok THEN Respond(r, 500, "store")
                            ELSE IF ~row.present THEN Respond(r, 404, "notfound")
                            ELSE RespondPage(r, PageData(row))]
    /\ UNCHANGED <<remoteVer, store, cache, cacheDown, bulk, hist>>
    /\ UNCHANGED treeVars
    /\ UNCHANGED renderVars
    /\ UNCHANGED titleVars

(***************************************************************************)
(* app/api/notion/sync/route.ts: POST with a pageId                        *)
(***************************************************************************)
P_Start ==
    /\ \E u \in Owners :
         /\ proc[Writer].pc = "idle"
         /\ proc' = [proc EXCEPT ![Writer] =
                       [SyncBegin("syncpost", P, u) EXCEPT !.sync = TRUE]]
    /\ hist.started < MaxRequests
    /\ hist' = Started(hist, TRUE)
    /\ UNCHANGED <<remoteVer, store, cache, cacheDown, bulk>>
    /\ UNCHANGED treeVars
    /\ UNCHANGED renderVars
    /\ UNCHANGED titleVars

\* await redisClient.del(`page:${pageId}`): a key nothing else uses, and no
\* inner try around it; then 'Sync failed' unless the sync returned true.
P_Del ==
    /\ \E i \in Slots :
         /\ proc[i].pc = "p_del"
         /\ LET r == proc[i]
            IN proc' = [proc EXCEPT ![i] =
                          IF r.result = "threw" THEN Respond(r, 500, "sync")
                          ELSE IF cacheDown THEN Respond(r, 500, "cache")
                          ELSE IF r.result # "true" THEN Respond(r, 500, "sync")
                          ELSE Respond(r, 200, "none")]
    /\ UNCHANGED <<remoteVer, store, cache, cacheDown, bulk, hist>>
    /\ UNCHANGED treeVars
    /\ UNCHANGED renderVars
    /\ UNCHANGED titleVars

(***************************************************************************)
(* app/api/gemini/analyze/route.ts: POST                                   *)
(***************************************************************************)
A_Start ==
    /\ \E u \in Owners, force \in BOOLEAN :
         /\ proc[Writer].pc = "idle"
         /\ proc' = [proc EXCEPT ![Writer] =
                       [Idle EXCEPT !.kind = "analyze", !.pageId = P,
                                    !.userId = u, !.force = force,
                                    !.pc = "a_select"]]
    /\ hist.started < MaxRequests
    /\ hist' = Started(hist, TRUE)
    /\ UNCHANGED <<remoteVer, store, cache, cacheDown, bulk>>
    /\ UNCHANGED treeVars
    /\ UNCHANGED renderVars
    /\ UNCHANGED titleVars

\* The select answers: an error or no row is a 500, no plain text a 400, a
\* stored analysis is returned unless forceRefresh; else Gemini is asked.
A_Select ==
    /\ \E i \in Slots :
         /\ proc[i].pc = "a_select"
         /\ LET r == proc[i]
                row == RowOf(r.pageId, r.userId)
            IN \E ok \in BOOLEAN :
                 proc' = [proc EXCEPT ![i] =
                            IF ~ok \/ ~row.present THEN Respond(r, 500, "store")
                            ELSE IF row.plain_text = 0
                                 THEN Respond(r, 400, "noplaintext")
                            ELSE IF row.gemini_analysis # 0 /\ ~r.force
                                 THEN [Respond(r, 200, "none")
                                         EXCEPT !.resp.ver = row.gemini_analysis]
                            ELSE [r EXCEPT !.pc = "a_gemini", !.page = row]]
    /\ UNCHANGED <<remoteVer, store, cache, cacheDown, bulk, hist>>
    /\ UNCHANGED treeVars
    /\ UNCHANGED renderVars
    /\ UNCHANGED titleVars

\* processWithGemini(page.plain_text, systemPrompt) answers or throws.
A_Gemini ==
    /\ \E i \in Slots :
         /\ proc[i].pc = "a_gemini"
         /\ \E ok \in BOOLEAN :
              proc' = [proc EXCEPT ![i] =
                         IF ok THEN [@ EXCEPT !.pc = "a_update",
                                              !.ver = proc[i].page.plain_text]
                         ELSE Respond(@, 500, "gemini")]
    /\ UNCHANGED <<remoteVer, store, cache, cacheDown, bulk, hist>>
    /\ UNCHANGED treeVars
    /\ UNCHANGED renderVars
    /\ UNCHANGED titleVars

\* update({gemini_analysis, ...}).eq(notion_page_id).eq(user_id): an error is
\* only logged and the response is the same success.
A_Update ==
    /\ \E i \in Slots :
         /\ proc[i].pc = "a_update"
         /\ LET r == proc[i]
            IN \E ok \in BOOLEAN :
                 IF ~ok
                 THEN /\ proc' = [proc EXCEPT ![i] =
                                    [Respond(r, 200, "none")
                                       EXCEPT !.resp.ver = r.ver]]
                      /\ store' = store
                 ELSE /\ proc' = [proc EXCEPT ![i] =
                                    [r EXCEPT !.pc = "a_del", !.wrote = TRUE]]
                      /\ store' = IF RowOf(r.pageId, r.userId).present
                                  THEN [store EXCEPT ![r.pageId].gemini_analysis
                                                       = r.ver]
                                  ELSE store
    /\ UNCHANGED <<remoteVer, cache, cacheDown, bulk, hist>>
    /\ UNCHANGED treeVars
    /\ UNCHANGED renderVars
    /\ UNCHANGED titleVars

\* try { await redisClient.del(cacheKey) } catch: logged; then success.
A_Del ==
    /\ \E i \in Slots :
         /\ proc[i].pc = "a_del"
         /\ LET r == proc[i]
                d == RedisDelDetail(cache, r.pageId)
            IN /\ cache' = d.cache
               /\ proc' = [proc EXCEPT ![i] =
                             [Respond(r, 200, "none")
                                EXCEPT !.resp.ver = r.ver,
                                       !.delDone = r.wrote]]
    /\ UNCHANGED <<remoteVer, store, cacheDown, bulk, hist>>
    /\ UNCHANGED treeVars
    /\ UNCHANGED renderVars
    /\ UNCHANGED titleVars

(***************************************************************************)
(* The environment of the handlers.                                        *)
(***************************************************************************)
\* The response has been sent: the slot is free for the next request.
Finish ==
    /\ \E i \in Slots :
         /\ proc[i].pc = "done"
         /\ proc' = [proc EXCEPT ![i] = Idle]
    /\ UNCHANGED <<remoteVer, store, cache, cacheDown, bulk, hist>>
    /\ UNCHANGED treeVars
    /\ UNCHANGED renderVars
    /\ UNCHANGED titleVars

\* The page is edited in Notion.
RemoteEdit ==
    /\ remoteVer < MaxVer
    /\ remoteVer' = remoteVer + 1
    /\ UNCHANGED <<store, cache, cacheDown, proc, bulk, hist>>
    /\ UNCHANGED treeVars
    /\ UNCHANGED renderVars
    /\ UNCHANGED titleVars

\* The TTL of the page-detail key runs out.
CacheExpire ==
    /\ cache.detail[P].hit
    /\ cache' = [cache EXCEPT !.detail[P] = Miss]
    /\ UNCHANGED <<remoteVer, store, cacheDown, proc, bulk, hist>>
    /\ UNCHANGED treeVars
    /\ UNCHANGED renderVars
    /\ UNCHANGED titleVars

Init ==
    /\ InitSystem
    /\ RenderIdle
    /\ \E r \in {NoRow, OldRow("A")} :
         store = [p \in Pages |-> IF p = P THEN r ELSE NoRow]

Next ==
    \/ G_Start
    \/ G_DelAfterSync
    \/ G_CacheGet
    \/ G_Select
    \/ G_CacheSet
    \/ D_Start
    \/ D_Delete
    \/ D_DelDetail
    \/ D_DelList
    \/ T_Start
    \/ T_CacheGet
    \/ T_Select
    \/ P_Start
    \/ P_Del
    \/ A_Start
    \/ A_Select
    \/ A_Gemini
    \/ A_Update
    \/ A_Del
    \/ S_Retrieve
    \/ S_Blocks
    \/ S_Select
    \/ S_Write
    \/ S_InvalidateDetail
    \/ S_InvalidateList
    \/ Finish
    \/ RemoteEdit
    \/ CacheExpire

Spec == Init /\ [][Next]_vars

(***************************************************************************)
(* Two calls of syncNotionPageToSupabase for page P at once, with Notion,  *)
(* Supabase and Redis answering every call: the only refusal left is the   *)
(* one by the UNIQUE constraint on notion_page_id.                         *)
(***************************************************************************)
\* A call starts in a slot that has not had one.
Y_Call ==
    /\ \E i \in Slots, u \in Owners :
         /\ proc[i].pc = "idle"
         /\ proc' = [proc EXCEPT ![i] = SyncBegin("call", P, u)]
    /\ UNCHANGED <<remoteVer, store, cache, cacheDown, bulk, hist>>
    /\ UNCHANGED treeVars
    /\ UNCHANGED renderVars
    /\ UNCHANGED titleVars

\* No call fails in this step but an insert beside an existing row, and a
\* select that answers tells whether the row exists.
Healthy ==
    \A i \in Slots :
      /\ (proc[i].pc = "s_select" /\ proc'[i].pc = "s_write")
            => proc'[i].existing = store[P].present
      /\ (proc[i].result # "false" /\ proc'[i].result = "false")
            => (/\ proc[i].pc = "s_write"
                /\ ~proc[i].existing
                /\ store[P].present)

Y_Retrieve == S_Retrieve /\ Healthy

Y_Blocks == S_Blocks /\ Healthy

Y_Select == S_Select /\ Healthy

Y_Write == S_Write /\ Healthy

InitTwoSyncs ==
    /\ InitSystem
    /\ cacheDown = FALSE
    /\ RenderIdle
    /\ store = [p \in Pages |-> NoRow]

NextTwoSyncs ==
    \/ Y_Call
    \/ Y_Retrieve
    \/ Y_Blocks
    \/ Y_Select
    \/ Y_Write
    \/ S_InvalidateDetail
    \/ S_InvalidateList
    \/ RemoteEdit

SpecTwoSyncs == InitTwoSyncs /\ [][NextTwoSyncs]_vars

\* The row of the page after a sync by A and an analysis of what it wrote.
AnalysedRow ==
    [PageDataRow([userId |-> "A", ver |-> 1,
                  blocks |-> ProcessBlocksRecursively(
                               Root, 0, DefaultMaxDepth, {}).blocks],
                 NoRow)
       EXCEPT !.gemini_analysis = 1]

InitAnalysis ==
    /\ InitSystem
    /\ RenderIdle
    /\ store = [p \in Pages |-> IF p = P THEN AnalysedRow ELSE NoRow]

\* The sync requests and the analysis requests, one at a time.
NextAnalysis ==
    \/ P_Start
    \/ P_Del
    \/ A_Start
    \/ A_Select
    \/ A_Gemini
    \/ A_Update
    \/ A_Del
    \/ S_Retrieve
    \/ S_Blocks
    \/ S_Select
    \/ S_Write
    \/ S_InvalidateDetail
    \/ S_InvalidateList
    \/ Finish
    \/ RemoteEdit

SpecAnalysis == InitAnalysis /\ [][NextAnalysis]_vars

(***************************************************************************)
(* app/notion/[id]/page.tsx: fetchNotionPage, the page view.  It runs in   *)
(* the slot Viewer; its call of GET /api/notion/P runs the handler in the  *)
(* slot Reader.  A view that returns null is a response 404.               *)
(***************************************************************************)
Viewer == 3

\* The page object that the view holds in r.ver and r.blocks.
ViewData(r) == [hit |-> TRUE, ver |-> r.ver, blocks |-> r.blocks]

\* fetchNotionPage(P) is called.
F_Start ==
    /\ proc[Viewer].pc \in {"idle", "done"}
    /\ proc' = [proc EXCEPT ![Viewer] =
                  [Idle EXCEPT !.kind = "view", !.pageId = P,
                               !.pc = "f_cget"]]
    /\ UNCHANGED <<remoteVer, store, cache, cacheDown, bulk, hist>>
    /\ UNCHANGED treeVars
    /\ UNCHANGED renderVars
    /\ UNCHANGED titleVars

\* getCachedPage answers: a hit is returned as it is.
F_CacheGet ==
    /\ proc[Viewer].pc = "f_cget"
    /\ LET r == proc[Viewer]
           g == GetCachedPage(r.pageId)
       IN proc' = [proc EXCEPT ![Viewer] =
                     IF g.value.hit THEN RespondPage(r, g.value)
                     ELSE [r EXCEPT !.pc = "f_fetch"]]
    /\ UNCHANGED <<remoteVer, store, cache, cacheDown, bulk, hist>>
    /\ UNCHANGED treeVars
    /\ UNCHANGED renderVars
    /\ UNCHANGED titleVars

\* fetch(`/api/notion/${id}`) reaches the route: the GET handler starts for
\* the owner u of the session.
F_Fetch ==
    /\ proc[Viewer].pc = "f_fetch"
    /\ proc[Reader].pc \in {"idle", "done"}
    /\ hist.started < MaxRequests
    /\ \E u \in Owners :
         proc' = [proc EXCEPT
                    ![Viewer].pc = "f_wait",
                    ![Reader] = [Idle EXCEPT !.kind = "get", !.pageId = P,
                                             !.userId = u, !.pc = "g_cget",
                                             !.seen = hist.okVer]]
    /\ hist' = Started(hist, FALSE)
    /\ UNCHANGED <<remoteVer, store, cache, cacheDown, bulk>>
    /\ UNCHANGED treeVars
    /\ UNCHANGED renderVars
    /\ UNCHANGED titleVars

\* fetch rejects: the catch starts the fallback.
F_FetchThrows ==
    /\ proc[Viewer].pc = "f_fetch"
    /\ proc' = [proc EXCEPT ![Viewer].pc = "f_retrieve"]
    /\ UNCHANGED <<remoteVer, store, cache, cacheDown, bulk, hist>>
    /\ UNCHANGED treeVars
    /\ UNCHANGED renderVars
    /\ UNCHANGED titleVars

\* The response of the route: !response.ok throws into the catch, which
\* starts the fallback; otherwise the body is the page.
F_Response ==
    /\ proc[Viewer].pc = "f_wait"
    /\ proc[Reader].pc = "done"
    /\ LET r == proc[Viewer]
           resp == proc[Reader].resp
       IN proc' = [proc EXCEPT
                     ![Reader] = Idle,
                     ![Viewer] =
                        IF resp.status = 200
                        THEN [r EXCEPT !.pc = "f_cset", !.ver = resp.ver,
                                       !.blocks = resp.blocks]
                        ELSE [r EXCEPT !.pc = "f_retrieve"]]
    /\ UNCHANGED <<remoteVer, store, cache, cacheDown, bulk, hist>>
    /\ UNCHANGED treeVars
    /\ UNCHANGED renderVars
    /\ UNCHANGED titleVars

\* await cachePage(id, pageData); return pageData.
F_CacheSet ==
    /\ proc[Viewer].pc = "f_cset"
    /\ LET r == proc[Viewer]
           c == CachePage(cache, r.pageId, ViewData(r))
       IN /\ cache' = c.cache
          /\ proc' = [proc EXCEPT ![Viewer] = RespondPage(r, ViewData(r))]
    /\ UNCHANGED <<remoteVer, store, cacheDown, bulk, hist>>
    /\ UNCHANGED treeVars
    /\ UNCHANGED renderVars
    /\ UNCHANGED titleVars

\* The fallback: notion.pages.retrieve({page_id: id}) answers or rejects; a
\* rejection ends the view with null.
F_Retrieve ==
    /\ proc[Viewer].pc = "f_retrieve"
    /\ LET r == proc[Viewer]
       IN \E ok \in BOOLEAN :
            proc' = [proc EXCEPT ![Viewer] =
                       IF ok THEN [r EXCEPT !.pc = "f_blocks",
                                            !.ver = remoteVer]
                       ELSE Respond(r, 404, "notfound")]
    /\ UNCHANGED <<remoteVer, store, cache, cacheDown, bulk, hist>>
    /\ UNCHANGED treeVars
    /\ UNCHANGED renderVars
    /\ UNCHANGED titleVars

\* processBlocks(id, notion) returns the blocks or rejects.
F_Blocks ==
    /\ proc[Viewer].pc = "f_blocks"
    /\ LET r == proc[Viewer]
       IN \E ok \in BOOLEAN :
            proc' = [proc EXCEPT ![Viewer] =
                       IF ok THEN [r EXCEPT !.pc = "f_fcset"]
                       ELSE Respond(r, 404, "notfound")]
    /\ UNCHANGED <<remoteVer, store, cache, cacheDown, bulk, hist>>
    /\ UNCHANGED treeVars
    /\ UNCHANGED renderVars
    /\ UNCHANGED titleVars

\* await cachePage(id, result); return result.
F_FallbackCacheSet ==
    /\ proc[Viewer].pc = "f_fcset"
    /\ LET r == proc[Viewer]
           c == CachePage(cache, r.pageId, ViewData(r))
       IN /\ cache' = c.cache
          /\ proc' = [proc EXCEPT ![Viewer] = RespondPage(r, ViewData(r))]
    /\ UNCHANGED <<remoteVer, store, cacheDown, bulk, hist>>
    /\ UNCHANGED treeVars
    /\ UNCHANGED renderVars
    /\ UNCHANGED titleVars

\* Nothing in the cache; the store has a row of the page or has none, and
\* no request of this specification writes the store.
InitPage ==
    /\ InitSystem
    /\ RenderIdle
    /\ \E r \in {NoRow, OldRow("A")} :
         store = [p \in Pages |-> IF p = P THEN r ELSE NoRow]

NextPage ==
    \/ F_Start
    \/ F_CacheGet
    \/ F_Fetch
    \/ F_FetchThrows
    \/ F_Response
    \/ F_CacheSet
    \/ F_Retrieve
    \/ F_Blocks
    \/ F_FallbackCacheSet
    \/ G_CacheGet
    \/ G_Select
    \/ G_CacheSet
    \/ T_Start
    \/ T_CacheGet
    \/ T_Select
    \/ RemoteEdit

SpecPage == InitPage /\ [][NextPage]_vars

(***************************************************************************)
(* lib/notion-sync.ts: the renderer (blocksToPlainText, assembleDocument). *)
(* The same two functions stand in app/api/notion/plain-text/[id]/route.ts.*)
(* A text is the sequence of its lines, every one ended by \n; a line is   *)
(* its indentation level, its mark and the content tokens after the mark.  *)
(***************************************************************************)
Line(indent, mark, text) == [indent |-> indent, mark |-> mark, text |-> text]

\* '\n' on its own.
Blank == Line(0, "", <<>>)

UnsupportedPrefix == "Unsupported block type: "

\* block.content.startsWith("Unsupported block type:")
StartsWithUnsupported(content) ==
    Len(content) > 0 /\ content[1] = UnsupportedPrefix

\* content.replace(/undefined\.\s*/g, '- ')
CleanContent(content) ==
    [i \in 1..Len(content) |->
       IF content[i] = "undefined. " THEN "- " ELSE content[i]]

\* block.children, where the block has the field.
BlockChildren(block) ==
    IF "children" \in DOMAIN block THEN block.children ELSE <<>>

\* !block.content && !block.children: an array, empty or not, is truthy.
SkippedBlock(block) ==
    block.content = <<>> /\ ~("children" \in DOMAIN block)

\* numberingStack[indentLevel] in the template string.
NumberMark(stack, indentLevel) ==
    IF indentLevel + 1 <= Len(stack)
    THEN ToString(stack[indentLevel + 1]) \o ". "
    ELSE "undefined. "

\* The numbering stack after lines 267-272.
BumpNumbering(stack, indentLevel, inNumberedList) ==
    IF Len(stack) <= indentLevel THEN Append(stack, 1)
    ELSE [stack EXCEPT ![indentLevel + 1] =
            IF inNumberedList THEN @ + 1 ELSE 1]

\* nextBlock && nextBlock.type !== 'numbered_list_item' && indentLevel === 0
NumberedRunEnds(nextType, indentLevel) ==
    nextType # "none" /\ nextType # "numbered_list_item" /\ indentLevel = 0

\* !inBulletedList && indentLevel === 0
BulletedRunStarts(inBulletedList, indentLevel) ==
    ~inBulletedList /\ indentLevel = 0

\* The end of a bulleted run never seen.
BulletedRunEnds_Never(nextType, indentLevel) == FALSE

\* nextBlock && nextBlock.type !== 'bulleted_list_item' && indentLevel === 0
BulletedRunEnds(nextType, indentLevel) ==
    nextType # "none" /\ nextType # "bulleted_list_item" /\ indentLevel = 0

\* The locals a call starts with, with the ones the call before ended with
\* kept instead.
FreshLocals_Carried(carry) == carry

\* let listCounter = 1; let inNumberedList = false; let inBulletedList =
\* false; numberingStack = [] by default: evaluated at every call.
FreshLocals(carry) == NoLocals

Emit(L, lines) == [L EXCEPT !.plainText = @ \o lines]

RECURSIVE BlocksToPlainText(_, _, _, _)
RECURSIVE RenderFrom(_, _, _, _)

\* One turn of the for loop: block blocks[i] with the locals L.
RenderBlock(blocks, i, indentLevel, L) ==
    LET block == blocks[i]
        nextType == IF i < Len(blocks) THEN blocks[i + 1].type ELSE "none"
        content == CleanContent(block.content)
        kids == BlockChildren(block)
        Nested(stack) ==
            IF Len(kids) > 0
            THEN BlocksToPlainText(kids, indentLevel + 1, stack,
                                   NoLocals).plainText
            ELSE <<>>
    IN IF SkippedBlock(block) THEN L
       ELSE IF StartsWithUnsupported(block.content)
       THEN IF block.type = "image"
            THEN Emit(L, <<Line(0, "[Image]", <<"the topic">>), Blank>>)
            ELSE IF block.type = "table"
            THEN Emit(L, <<Line(0, "[Table]", <<>>), Blank>>)
            ELSE L
       ELSE CASE block.type = "paragraph" ->
                   IF content # <<>>
                   THEN Emit(L, <<Line(indentLevel, "", content), Blank>>)
                   ELSE L
              [] block.type = "heading_1" ->
                   Emit(L, <<Line(indentLevel, "# ", content), Blank>>)
              [] block.type = "heading_2" ->
                   Emit(L, <<Line(indentLevel, "## ", content), Blank>>)
              [] block.type = "heading_3" ->
                   Emit(L, <<Line(indentLevel, "### ", content), Blank>>)
              [] block.type = "bulleted_list_item" ->
                   LET pre == IF BulletedRunStarts(L.inBulletedList,
                                                   indentLevel)
                              THEN <<Blank>> ELSE <<>>
                       ends == BulletedRunEnds(nextType, indentLevel)
                   IN [L EXCEPT
                         !.plainText =
                             @ \o pre
                               \o <<Line(indentLevel, "- ", content)>>
                               \o Nested(NoLocals.numberingStack)
                               \o (IF ends THEN <<Blank>> ELSE <<>>),
                         !.inBulletedList = ~ends,
                         !.inNumberedList = FALSE]
              [] block.type = "numbered_list_item" ->
                   LET starts == ~L.inNumberedList /\ indentLevel = 0
                       stack == BumpNumbering(L.numberingStack, indentLevel,
                                              L.inNumberedList)
                       ends == NumberedRunEnds(nextType, indentLevel)
                   IN [L EXCEPT
                         !.plainText =
                             @ \o (IF starts THEN <<Blank>> ELSE <<>>)
                               \o <<Line(indentLevel,
                                         NumberMark(stack, indentLevel),
                                         content)>>
                               \o Nested(stack)
                               \o (IF ends THEN <<Blank>> ELSE <<>>),
                         !.listCounter = IF starts THEN 1 ELSE @,
                         !.numberingStack = stack,
                         !.inNumberedList = ~ends,
                         !.inBulletedList = FALSE]
              [] block.type = "toggle" ->
                   Emit(L, <<Line(indentLevel, "|> ", content)>>
                             \o Nested(NoLocals.numberingStack)
                             \o <<Blank>>)
              [] block.type = "table" ->
                   Emit(L, <<Line(indentLevel, "[Table]", <<>>), Blank>>)
              [] block.type = "image" ->
                   Emit(L, <<Line(indentLevel, "[Image]", <<"the topic">>),
                             Blank>>)
              [] OTHER ->
                   IF content # <<>>
                   THEN Emit(L, <<Line(indentLevel, "", content), Blank>>)
                   ELSE L

RenderFrom(blocks, i, indentLevel, L) ==
    IF i > Len(blocks) THEN L
    ELSE RenderFrom(blocks, i + 1, indentLevel,
                    RenderBlock(blocks, i, indentLevel, L))

\* blocksToPlainText(blocks, indentLevel, numberingStack), the locals of the
\* call starting as in locals; the result holds the text and the locals the
\* call ended with.
BlocksToPlainText(blocks, indentLevel, numberingStack, locals) ==
    RenderFrom(blocks, 1, indentLevel,
               [plainText |-> <<>>,
                listCounter |-> locals.listCounter,
                inNumberedList |-> locals.inNumberedList,
                inBulletedList |-> locals.inBulletedList,
                numberingStack |-> numberingStack])

\* The locals a call has ended with.
LocalsOf(L) ==
    [listCounter |-> L.listCounter, inNumberedList |-> L.inNumberedList,
     inBulletedList |-> L.inBulletedList,
     numberingStack |-> L.numberingStack]

\* blocksToPlainText(pageData.blocks) as assembleDocument calls it.
RenderBlocks(blocks, carry) ==
    BlocksToPlainText(blocks, 0, FreshLocals(carry).numberingStack,
                      FreshLocals(carry))

\* assembleDocument(pageData): the lines before the blocks.
DocumentHead(meta) ==
    LET title == IF meta.pageTitle # "" THEN meta.pageTitle
                 ELSE "Notion Document"
        metadata ==
            (IF meta.author # "" THEN <<"Author: ", meta.author>> ELSE <<>>)
            \o (IF meta.Date # "" THEN <<"Date: ", meta.Date>> ELSE <<>>)
    IN <<Line(0, "# ", <<title>>), Blank>>
       \o (IF meta.Description # ""
           THEN <<Line(0, "", <<meta.Description>>), Blank>> ELSE <<>>)
       \o (IF metadata # <<>>
           THEN <<Line(0, "", metadata), Blank, Line(0, "---", <<>>), Blank>>
           ELSE <<>>)

\* assembleDocument(pageData): the document and the locals that the call of
\* blocksToPlainText ended with.
AssembleDocument(meta, blocks, carry) ==
    IF Len(blocks) > 0
    THEN LET L == RenderBlocks(blocks, carry)
         IN [document |-> DocumentHead(meta) \o L.plainText,
             locals |-> LocalsOf(L)]
    ELSE [document |-> DocumentHead(meta)
                         \o <<Line(0, "", <<"No content blocks available.">>)>>,
          locals |-> carry]

(***************************************************************************)
(* The pages handed to the renderer.  The page grows block by block in     *)
(* document order, and the stored tree holds of every block what           *)
(* processBlocksRecursively makes of it when every listing call succeeds   *)
(* within the depth limit.  The text of a block names its place in the     *)
(* page, so that no two blocks of a page have the same text.               *)
(***************************************************************************)
ListTypes ==
    {"paragraph", "bulleted_list_item", "numbered_list_item", "embed"}

TextTypes == {"paragraph", "heading_1", "toggle", "image"}

\* extractRichTextContent of the block at path.
RichText(path) == <<ToString(path)>>

\* processedBlock = {id, type, content: extractBlockContent(block),
\* children: []}.
ProcessedBlock(type, path) ==
    [type |-> type, content |-> ExtractBlockContent(type, RichText(path)),
     children |-> <<>>]

RECURSIVE CountBlocks(_)
CountBlocks(blocks) ==
    IF blocks = <<>> THEN 0
    ELSE 1 + CountBlocks(Head(blocks).children) + CountBlocks(Tail(blocks))

RECURSIVE TypesOf(_)
TypesOf(blocks) ==
    IF blocks = <<>> THEN {}
    ELSE {Head(blocks).type} \cup TypesOf(Head(blocks).children)
                             \cup TypesOf(Tail(blocks))

RECURSIVE LastDepth(_)
\* How deep the last block of the page in document order lies, from 1.
LastDepth(blocks) ==
    IF blocks = <<>> THEN 0 ELSE 1 + LastDepth(blocks[Len(blocks)].children)

RECURSIVE AppendBlock(_, _, _, _)
\* The tree with a block of the type added as the last one at depth d: d = 0
\* at the top level, d > 0 under the last block at depth d - 1.
AppendBlock(blocks, d, type, path) ==
    IF d = 0
    THEN Append(blocks, ProcessedBlock(type, Append(path, Len(blocks) + 1)))
    ELSE [blocks EXCEPT ![Len(blocks)].children =
            AppendBlock(@, d - 1, type, Append(path, Len(blocks)))]

FullMeta ==
    [pageTitle |-> "Title", Description |-> "About", author |-> "Ann",
     Date |-> "1/2/2025"]

Metas == {NoMeta, FullMeta}

\* Pages rendered in between: one ending inside a numbered run, one inside
\* a bulleted run.
OtherPages ==
    {<<ProcessedBlock(t, <<1>>)>> :
       t \in {"numbered_list_item", "bulleted_list_item"}}

\* The page gains a block of a type in T before it is first rendered.
R_Edit(T) ==
    /\ rn = 0
    /\ rcarry = NoLocals
    /\ CountBlocks(rblocks) < MaxBlocks
    /\ TypesOf(rblocks) \subseteq T
    /\ \E type \in T, d \in 0..LastDepth(rblocks) :
         rblocks' = AppendBlock(rblocks, d, type, <<>>)
    /\ UNCHANGED <<rmeta, rn, rout, rfirst, rcarry>>
    /\ UNCHANGED titleVars
    /\ UNCHANGED treeVars
    /\ UNCHANGED sysVars

R_EditList == R_Edit(ListTypes)

FlatTypes ==
    {"paragraph", "heading_1", "bulleted_list_item", "numbered_list_item",
     "toggle"}

\* A block without children whose rich text is the text: with children: []
\* as processBlocksRecursively stores it (lines 99-104), without the field
\* as processBlockWithChildren leaves a block that has no children.
LeafBlock(type, text, listed) ==
    IF listed
    THEN [type |-> type, content |-> ExtractBlockContent(type, text),
          children |-> <<>>]
    ELSE [type |-> type, content |-> ExtractBlockContent(type, text)]

\* The page, which has no nested blocks, gains a block at its end, with
\* text or with none, before it is first rendered.
R_EditFlat ==
    /\ rn = 0
    /\ Len(rblocks) < MaxFlat
    /\ \E type \in FlatTypes, listed \in BOOLEAN,
          text \in {<<>>, RichText(<<Len(rblocks) + 1>>)} :
         rblocks' = Append(rblocks, LeafBlock(type, text, listed))
    /\ UNCHANGED <<rmeta, rn, rout, rfirst, rcarry>>
    /\ UNCHANGED titleVars
    /\ UNCHANGED treeVars
    /\ UNCHANGED sysVars

R_EditText == R_Edit(TextTypes)

\* assembleDocument(pageData) is called on the page.
R_Render ==
    /\ rn < MaxRenders
    /\ LET r == AssembleDocument(rmeta, rblocks, rcarry)
       IN /\ rout' = r.document
          /\ rfirst' = IF rn = 0 THEN r.document ELSE rfirst
          /\ rcarry' = r.locals
    /\ rn' = rn + 1
    /\ UNCHANGED <<rmeta, rblocks>>
    /\ UNCHANGED titleVars
    /\ UNCHANGED treeVars
    /\ UNCHANGED sysVars

\* assembleDocument is called on another page.
R_RenderOther ==
    /\ \E other \in OtherPages :
         rcarry' = AssembleDocument(NoMeta, other, rcarry).locals
    /\ UNCHANGED <<rmeta, rblocks, rn, rout, rfirst>>
    /\ UNCHANGED titleVars
    /\ UNCHANGED treeVars
    /\ UNCHANGED sysVars

InitRender ==
    /\ InitSystem
    /\ cacheDown = FALSE
    /\ store = [p \in Pages |-> NoRow]
    /\ rmeta = NoMeta
    /\ rblocks = <<>>
    /\ rn = 0
    /\ rout = <<>>
    /\ rfirst = <<>>
    /\ rcarry = NoLocals
    /\ TitleIdle

NextRender ==
    \/ R_EditList
    \/ R_EditText
    \/ R_Render

SpecRender == InitRender /\ [][NextRender]_vars

NextRenderFlat ==
    \/ R_EditFlat
    \/ R_Render

SpecRenderFlat == InitRender /\ [][NextRenderFlat]_vars

InitRerender ==
    /\ InitSystem
    /\ cacheDown = FALSE
    /\ store = [p \in Pages |-> NoRow]
    /\ rmeta \in Metas
    /\ rblocks = <<>>
    /\ rn = 0
    /\ rout = <<>>
    /\ rfirst = <<>>
    /\ rcarry = NoLocals
    /\ TitleIdle

NextRerender ==
    \/ R_EditList
    \/ R_Render
    \/ R_RenderOther

SpecRerender == InitRerender /\ [][NextRerender]_vars

(***************************************************************************)
(* Properties of the tree fetchers (SpecTree).                             *)
(***************************************************************************)
\* Blocks returned by the root listing are discovered at depth 0.
DiscoveredDepth(n) == Len(n) - 1

ChildrenOf(b) == IF "children" \in DOMAIN b THEN b.children ELSE <<>>

Max(a, b) == IF a > b THEN a ELSE b

RECURSIVE MaxOver(_)
MaxOver(S) ==
    IF S = {} THEN 0
    ELSE LET x == CHOOSE y \in S : TRUE IN Max(x, MaxOver(S \ {x}))

\* Number of block levels of an assembled tree.
RECURSIVE Nesting(_)
Nesting(blocks) ==
    IF blocks = <<>> THEN 0
    ELSE 1 + MaxOver({Nesting(ChildrenOf(blocks[i])) : i \in 1..Len(blocks)})

RECURSIVE BlocksIn(_)
BlocksIn(blocks) ==
    Range(blocks)
    \cup UNION {BlocksIn(ChildrenOf(blocks[i])) : i \in 1..Len(blocks)}

\* The subtree of block n as the remote holds it, cut at the depth limit of
\* processBlocksRecursively (the children of n are listed at depth Len(n)).
RECURSIVE FullSubtree(_, _)
FullSubtree(n, maxD) ==
    [id |-> n, type |-> BlockType(n),
     content |-> ExtractBlockContent(BlockType(n), BlockText(n)),
     children |-> IF Len(n) < maxD
                  THEN [i \in 1..Len(Kids(n)) |-> FullSubtree(Kids(n)[i], maxD)]
                  ELSE <<>>]

Parent(n) == SubSeq(n, 1, Len(n) - 1)

Siblings(n) == Range(Kids(Parent(n))) \ {n}

IsPrefix(a, b) == Len(a) <= Len(b) /\ SubSeq(b, 1, Len(a)) = a

\* C8: when the children-listing call of a non-root block fails during
\* processBlocksRecursively, the returned tree still holds that block, with
\* an empty children list, and holds every sibling with the sibling's whole
\* subtree (as far as the depth limit reaches); the call does not throw.
C8_SubtreeFailureIsolated ==
    rec.pc = "done" =>
      \A b \in rec.F :
        (b # Root /\ b \in Range(rec.out.calls)) =>
          /\ ~rec.out.threw
          /\ \E x \in BlocksIn(rec.out.blocks) : x.id = b /\ x.children = <<>>
          /\ \A s \in Siblings(b) :
               (\A f \in rec.F : ~IsPrefix(s, f)) =>
                 FullSubtree(s, maxDepth) \in BlocksIn(rec.out.blocks)

\* A run in which the listing of block <<1>> failed while its sibling <<2>>
\* has children that were fetched.
C8_Witness ==
    /\ rec.pc = "done"
    /\ rec.F = {<<1>>}
    /\ <<1>> \in Range(rec.out.calls)
    /\ <<2, 1>> \in Range(rec.out.calls)
    /\ \E x \in BlocksIn(rec.out.blocks) : x.id = <<2, 1, 1>>

\* C9 (as claimed): a failed listing call for the page root ends
\* processBlocksRecursively by throwing.
C9_RootFailurePropagates ==
    (rec.pc = "done" /\ Root \in rec.F /\ Root \in Range(rec.out.calls))
      => rec.out.threw

\* C10: neither fetcher asks for the children of a block discovered at depth
\* = the configured limit, whatever the remote says about has_children, and
\* no assembled tree has more than limit + 1 levels.
C10_NoFetchAtMaxDepth ==
    /\ rec.pc = "done" =>
         /\ \A i \in 1..Len(rec.out.calls) :
              DiscoveredDepth(rec.out.calls[i]) # maxDepth
         /\ Nesting(rec.out.blocks) <= maxDepth + 1
    /\ pb.pc # "idle" =>
         \A i \in 1..Len(pb.calls) : DiscoveredDepth(pb.calls[i]) # maxDepth
    /\ pb.pc = "done" => Nesting(pb.out) <= maxDepth + 1

\* The batched fetcher finished on a remote tree that has a block with
\* children at depth = limit, having fetched down to that depth.
C10_Witness ==
    /\ pb.pc = "done"
    /\ maxDepth >= 1
    /\ \E n \in RemoteBlocks :
         DiscoveredDepth(n) = maxDepth /\ HasChildren(n)
    /\ Nesting(pb.out) = maxDepth + 1

(***************************************************************************)
(* Properties of the syncs (SpecBulk).                                     *)
(***************************************************************************)
Succeeded == {i \in 1..bulk.n : proc[i].result = "true"}

\* C5: every call of syncNotionPageToSupabase and of
\* syncAllNotionPagesToSupabase ends by returning true or false, whichever
\* step failed on the way; none ends by throwing.
C5_SyncsReturnBoolean ==
    /\ \A i \in Procs :
         proc[i].pc = "s_done" => proc[i].result \in {"true", "false"}
    /\ bulk.pc = "done" => bulk.result \in {"true", "false"}

\* A bulk sync has returned after one page failed in notion.pages.retrieve
\* and another in the store write.
C5_Witness ==
    /\ bulk.pc = "done"
    /\ \E i, j \in 1..bulk.n :
         /\ proc[i].result = "false" /\ proc[i].ver = 0
         /\ proc[j].result = "false" /\ proc[j].ver > 0 /\ ~proc[j].wrote

\* C6: with the database id configured and the query answered, the bulk sync
\* returns true exactly when at least one of the syncs it started returned
\* true.
C6_BulkTrueIffOnePageSynced ==
    (bulk.pc = "done" /\ bulk.configured /\ bulk.listed) =>
        (bulk.result = "true" <=> Succeeded # {})

\* A bulk sync over several pages has returned true although a page failed.
C6_Witness ==
    /\ bulk.pc = "done" /\ bulk.listed /\ bulk.result = "true"
    /\ \E i, j \in 1..bulk.n :
         proc[i].result = "true" /\ proc[j].result = "false"

\* C7 (as claimed): one bulk sync issues the delete of the owner's
\* page-list key exactly once.
C7_ListKeyDeletedOnce ==
    (bulk.pc = "done" /\ bulk.listed) => bulk.listDels = 1

\* C7 (amended): one bulk sync issues the delete of the owner's page-list key
\* once on its own account after all the syncs have ended, and once more
\* in every sync that returned true.
C7_ListKeyDeletedOncePlusSuccesses ==
    (bulk.pc = "done" /\ bulk.listed) =>
        bulk.listDels = 1 + Cardinality(Succeeded)

\* A bulk sync has returned after two pages were synced and one failed.
C7_Witness ==
    /\ bulk.pc = "done" /\ bulk.listed
    /\ Cardinality(Succeeded) = 2
    /\ \E j \in 1..bulk.n : proc[j].result = "false"
    /\ bulk.listDels = 3


(***************************************************************************)
(* Properties of the request handlers (Spec).                              *)
(***************************************************************************)
\* A page-detail read that has returned.
ReadReturned(r) == r.pc = "done" /\ r.kind = "get" /\ ~r.sync

\* C1: with one single-page sync and any page-detail reads of the same page,
\* a read that started after the sync returned true and that returns the page
\* returns the content that sync wrote, never the content from before it.
C1_ReadAfterSyncIsFresh ==
    LET r == proc[Reader]
    IN (/\ ReadReturned(r)
        /\ hist.writers = 1
        /\ r.seen > 0
        /\ r.userId = hist.okUser
        /\ r.resp.status = 200)
       => r.resp.ver = r.seen

\* C2: a sync that has returned true, and a sync request, a delete or an
\* analysis that wrote the store and answers with success, has had the
\* delete of the page's detail key issued and ended after its store write.
C2_DetailKeyDeletedBeforeSuccess ==
    \A i \in Slots :
      /\ proc[i].result = "true" => proc[i].delDone
      /\ (/\ proc[i].pc = "done"
          /\ proc[i].wrote
          /\ proc[i].resp.status = 200) => proc[i].delDone

C2_Witness ==
    /\ proc[Writer].pc = "done"
    /\ proc[Writer].kind = "syncpost"
    /\ proc[Writer].resp.status = 200
    /\ proc[Writer].wrote
    /\ proc[Writer].delDone

\* C3: no request answers with an error that a failing cache operation
\* caused.
C3_CacheFailureNotPropagated ==
    \A i \in Slots :
      proc[i].pc = "done" => proc[i].resp.cause # "cache"

\* C4: no step changes the owner of a row that exists before and after it.
C4_OwnerOfRowNeverChanges ==
    [][\A p \in Pages :
         (store[p].present /\ store'[p].present)
            => store'[p].user_id = store[p].user_id]_vars

(***************************************************************************)
(* Properties of the renderer (SpecRender, SpecRerender).                  *)
(***************************************************************************)
Rendered == rn >= 1

ListItemTypes == {"bulleted_list_item", "numbered_list_item"}

RECURSIVE PlacedBlocks(_, _, _, _)
\* Every block of the tree with its place: its path, the types of the
\* siblings before and after it, of its parent and of all the blocks above
\* it, its index among its siblings, whether all the siblings before it
\* have its type, its place in its run of consecutive siblings of its type,
\* and the number of its children.
PlacedBlocks(blocks, path, parent, above) ==
    UNION {
      {[path |-> Append(path, i),
        type |-> blocks[i].type,
        prev |-> IF i > 1 THEN blocks[i - 1].type ELSE "none",
        next |-> IF i < Len(blocks) THEN blocks[i + 1].type ELSE "none",
        parent |-> parent,
        above |-> above,
        index |-> i,
        leads |-> \A j \in 1..i : blocks[j].type = blocks[i].type,
        run |-> i - MaxOver({j \in 1..i : blocks[j].type # blocks[i].type}),
        kids |-> Len(blocks[i].children)]}
      \cup PlacedBlocks(blocks[i].children, Append(path, i), blocks[i].type,
                        above \cup {blocks[i].type}) : i \in 1..Len(blocks)}

Placed == PlacedBlocks(rblocks, <<>>, "none", {})

\* The places in the document of the lines that hold the text of the block.
LinesOf(path) == {k \in 1..Len(rout) : rout[k].text = RichText(path)}

\* C11: at the top level and inside the children of numbered items, a
\* numbered item that follows a sibling which is not a numbered item is
\* rendered with the number 1.
C11_CounterResetsAtEveryLevel ==
    Rendered =>
      \A b \in Placed :
        (/\ b.type = "numbered_list_item"
         /\ b.prev \notin {"none", "numbered_list_item"}
         /\ b.above \subseteq {"numbered_list_item"})
          => \A k \in LinesOf(b.path) : rout[k].mark = "1. "

\* The case of C11 at the top level alone, which the code meets.
C11_CounterResetsAtTopLevel ==
    Rendered =>
      \A b \in Placed :
        (/\ b.type = "numbered_list_item"
         /\ b.prev \notin {"none", "numbered_list_item"}
         /\ b.above = {})
          => /\ LinesOf(b.path) # {}
             /\ \A k \in LinesOf(b.path) : rout[k].mark = "1. "

\* C12: a numbered item that is a child of a numbered item or stands at
\* the top level, and is preceded by numbered siblings only, is rendered
\* with its index among its siblings: the children of a numbered item count
\* 1, 2, ... and the items of the parent's level go on counting across
\* them.
C12_NestedNumbering ==
    Rendered =>
      \A b \in Placed :
        (/\ b.type = "numbered_list_item"
         /\ b.leads
         /\ b.parent \in {"none", "numbered_list_item"})
          => \A k \in LinesOf(b.path) :
               rout[k].mark = ToString(b.index) \o ". "

\* The case of C12 in which no other block than numbered items stands above
\* the item, which the code meets.
C12_NestedNumberingUnderNumberedItems ==
    Rendered =>
      \A b \in Placed :
        (/\ b.type = "numbered_list_item"
         /\ b.leads
         /\ b.above \subseteq {"numbered_list_item"})
          => /\ LinesOf(b.path) # {}
             /\ \A k \in LinesOf(b.path) :
                  rout[k].mark = ToString(b.index) \o ". "

\* The lines of the document before the text of the blocks.
HeadLen == Len(DocumentHead(rmeta))

\* Line k belongs to the text of the blocks and is blank.
BlankAt(k) == k > HeadLen /\ k <= Len(rout) /\ rout[k] = Blank

\* The line of a block that is rendered.
LineOf(path) == CHOOSE k \in LinesOf(path) : TRUE

\* The top-level runs of bulleted items that another block follows: the
\* indices of the first and of the last item.
BulletedRuns ==
    {run \in (1..Len(rblocks)) \X (1..Len(rblocks)) :
       /\ run[1] <= run[2]
       /\ \A j \in run[1]..run[2] : rblocks[j].type = "bulleted_list_item"
       /\ run[1] > 1 => rblocks[run[1] - 1].type # "bulleted_list_item"
       /\ run[2] < Len(rblocks)
       /\ rblocks[run[2] + 1].type # "bulleted_list_item"}

\* n lines that begin with "- " from the first to the last item of the run,
\* one blank line and no more before the first and after the last.
RunSetOff(run) ==
    LET first == LineOf(<<run[1]>>)
        last == LineOf(<<run[2]>>)
    IN /\ Cardinality({k \in first..last :
                         rout[k].mark = "- " /\ rout[k].indent = 0})
            = run[2] - run[1] + 1
       /\ BlankAt(first - 1) /\ ~BlankAt(first - 2)
       /\ BlankAt(last + 1) /\ ~BlankAt(last + 2)

ImageBlocks ==
    {b \in Placed : b.type = "image" /\ b.above \cap {"image", "embed"} = {}}

ImageLines == {k \in 1..Len(rout) : rout[k].mark = "[Image]"}

\* A page that has blocks has been rendered.
RenderedBlocks == Rendered /\ rblocks # <<>>

\* C14: no line of the text of the blocks comes from a block of type embed,
\* at any nesting level: every line that is not blank is an image
\* placeholder or holds the text of a block of a recognized type; and there
\* is one image placeholder line for every image block.
C14_EmbedNoLineImageOneLine ==
    RenderedBlocks =>
      /\ \A k \in (HeadLen + 1)..Len(rout) :
           \/ rout[k] = Blank
           \/ k \in ImageLines
           \/ \E b \in Placed :
                b.type \in RecognizedTypes /\ k \in LinesOf(b.path)
      /\ Cardinality(ImageLines) = Cardinality(ImageBlocks)

\* The case of C14 the code meets: the images counted are those with toggles
\* alone above them.
C14_ImagesUnderTogglesOnly ==
    RenderedBlocks =>
      /\ \A k \in (HeadLen + 1)..Len(rout) :
           \/ rout[k] = Blank
           \/ k \in ImageLines
           \/ \E b \in Placed :
                b.type \in RecognizedTypes /\ k \in LinesOf(b.path)
      /\ Cardinality(ImageLines) =
           Cardinality({b \in ImageBlocks : b.above \subseteq {"toggle"}})

\* The prefix of the line of a paragraph or heading block.
PrefixOf(type) ==
    CASE type = "heading_1" -> "# "
      [] type = "heading_2" -> "## "
      [] type = "heading_3" -> "### "
      [] OTHER -> ""

RECURSIVE PreOrder(_)
\* The texts of the blocks with their prefix, in document pre-order.
PreOrder(blocks) ==
    IF blocks = <<>> THEN <<>>
    ELSE <<[mark |-> PrefixOf(Head(blocks).type),
            text |-> Head(blocks).content]>>
         \o PreOrder(Head(blocks).children) \o PreOrder(Tail(blocks))

NotBlank(line) == line # Blank

\* The lines of the text of the blocks that are not blank, without their
\* indentation.
NonBlankLines ==
    LET kept == SelectSeq(SubSeq(rout, HeadLen + 1, Len(rout)), NotBlank)
    IN [k \in 1..Len(kept) |-> [mark |-> kept[k].mark, text |-> kept[k].text]]

ParagraphsAndHeadings ==
    TypesOf(rblocks) \subseteq
      {"paragraph", "heading_1", "heading_2", "heading_3"}

\* C15: of a tree of paragraph and heading blocks the lines that are not
\* blank are the texts of all the blocks with their heading prefix, in
\* document pre-order.
C15_ParagraphsAndHeadingsInPreOrder ==
    (RenderedBlocks /\ ParagraphsAndHeadings)
       => NonBlankLines = PreOrder(rblocks)

\* The case of C15 the code meets: no block of the tree has children.
C15_FlatParagraphsAndHeadingsInOrder ==
    (/\ RenderedBlocks
     /\ ParagraphsAndHeadings
     /\ \A i \in 1..Len(rblocks) : rblocks[i].children = <<>>)
       => NonBlankLines = PreOrder(rblocks)

\* C16: a render leaves the page it is given as it was, and every render of
\* the page after the first returns the document that the first returned,
\* whatever has been rendered in between.
C16_RenderIsDeterministic ==
    [][rn' = rn + 1 =>
         /\ rblocks' = rblocks
         /\ rmeta' = rmeta
         /\ rn >= 1 => rout' = rfirst]_vars

\* The page, which ends in a numbered item, has been rendered twice, and a
\* page of one bulleted item has been rendered last.
C16_Witness ==
    /\ rn >= 2
    /\ rmeta = FullMeta
    /\ CountBlocks(rblocks) >= 2
    /\ rblocks[Len(rblocks)].type = "numbered_list_item"
    /\ rcarry.inBulletedList
    /\ rout = rfirst

\* C18: when the delete of the page by its owner has returned success, no
\* other writing request having run, the cache holds no detail entry of the
\* page.
C18_NoDetailEntryAfterDelete ==
    (/\ proc[Writer].pc = "done"
     /\ proc[Writer].kind = "delete"
     /\ proc[Writer].resp.status = 200
     /\ hist.writers = 1
     /\ ~store[P].present)
       => ~cache.detail[P].hit

\* C19: a run of processBlocks ends by throwing only when the listing call
\* for the root failed: a failed call for another block is caught and the
\* run completes.
C19_NonRootFailureCaught ==
    pb.pc = "threw" => pb.failed = Root

\* With the depth limit 0 the batched fetcher has listed the root alone and
\* returns the blocks listed for the root, none with children.
BatchedAtLimitZero ==
    (pb.pc = "done" /\ maxDepth = 0) =>
       /\ pb.calls = <<Root>>
       /\ Len(pb.out) = Len(Kids(Root))
       /\ Nesting(pb.out) <= 1

\* With the depth limit 0 the recursive fetcher, no call failing, has listed
\* the root alone and returns the blocks listed for the root, none with
\* children.
RecursiveAtLimitZero ==
    (rec.pc = "done" /\ maxDepth = 0 /\ rec.F = {}) =>
       /\ rec.out.calls = <<Root>>
       /\ Len(rec.out.blocks) = Len(Kids(Root))
       /\ Nesting(rec.out.blocks) <= 1

\* C20: with the depth limit 0 each tree fetcher issues the listing call for
\* the root and no other, and returns the root's listed children without
\* children of their own.
C20_DepthLimitZero == BatchedAtLimitZero /\ RecursiveAtLimitZero

(***************************************************************************)
(* Properties of the page view (SpecPage).                                 *)
(***************************************************************************)
\* C17: while the store has no row of the page and the cache had no entry
\* of it, no read of the page, by either route or by the page view, returns
\* page data, and the cache gets no detail entry of the page.
C17_AbsentPageIsNotFound ==
    ~store[P].present =>
       /\ ~cache.detail[P].hit
       /\ \A i \in Procs : proc[i].pc = "done" => proc[i].resp.status # 200

\* The routes alone: with no row of the page in the store, a route that
\* returns page data has found it in the cache.
C17_RoutesReturnOnlyCachedPages ==
    \A i \in Slots :
      (~store[P].present /\ proc[i].pc = "done" /\ proc[i].resp.status = 200)
         => cache.detail[P].hit

(***************************************************************************)
(* More properties of the tree fetchers (SpecTree).                        *)
(***************************************************************************)
\* In a sequence of listing calls in the order of their issue, no call for
\* a block comes before a call for a block discovered at a smaller depth.
LevelByLevel(calls) ==
    \A i, j \in 1..Len(calls) :
      i < j => DiscoveredDepth(calls[i]) <= DiscoveredDepth(calls[j])

\* The batched fetcher issues its calls level by level, and issues none
\* while a call of a smaller depth is in flight.
BatchedLevelByLevel ==
    pb.pc # "idle" => LevelByLevel(pb.calls)

\* C21: both fetchers issue their listing calls level by level: no call for
\* a block discovered at depth d + 1 is issued before the calls for all the
\* blocks discovered at depth d.
C21_CallsLevelByLevel ==
    /\ BatchedLevelByLevel
    /\ rec.pc = "done" => LevelByLevel(rec.out.calls)

RECURSIVE RemoteSubtree(_)
\* Block n with the children the remote lists for it, in the remote's order,
\* as far as the batched fetcher lists (blocks discovered up to depth
\* MAX_DEPTH - 1 are queued).
RemoteSubtree(n) ==
    LET type == BlockType(n)
        content == ExtractBlockContent(BlockType(n), BlockText(n))
    IN IF HasChildren(n) /\ DiscoveredDepth(n) < maxDepth
       THEN [type |-> type, content |-> content,
             children |-> [i \in 1..Len(Kids(n)) |->
                             RemoteSubtree(Kids(n)[i])]]
       ELSE [type |-> type, content |-> content]

\* C22: whatever the order in which the listing calls of a batch answer,
\* the batched fetcher returns the remote tree: every block with the
\* children listed for its own id, in the remote's order.
C22_TreeIndependentOfCompletionOrder ==
    pb.pc = "done" =>
       pb.out = [i \in 1..Len(Kids(Root)) |-> RemoteSubtree(Kids(Root)[i])]

\* A run has ended in which a call answered before a call issued ahead of
\* it in the same batch, for blocks that both have children.
C22_Witness ==
    /\ pb.pc = "done"
    /\ pb.overtaken
    /\ Nesting(pb.out) >= 3

\* C23: at most BATCH_SIZE listing calls of the batched fetcher are in
\* flight, and none is in flight when the fetcher is about to issue a batch.
C23_BoundedBatches ==
    /\ pb.pc = "await" => Cardinality(pb.inflight) <= BATCH_SIZE
    /\ pb.pc \in {"loop", "batches"} => pb.inflight = {}

\* The second batch of a level of more than BATCH_SIZE blocks is in flight.
C23_Witness ==
    /\ pb.pc = "await"
    /\ Len(pb.blocksToFetch) > BATCH_SIZE
    /\ pb.batches = <<>>
    /\ pb.inflight # {}
    /\ Len(pb.calls) = Len(pb.blocksToFetch) + 1

(***************************************************************************)
(* More properties of the renderer (SpecRender).                           *)
(***************************************************************************)
\* C24: under any parent (page root, numbered item, bulleted item, toggle)
\* the k-th item of a run of consecutive numbered siblings is rendered with
\* the number k.
C24_RunsCountFromOne ==
    Rendered =>
      \A b \in Placed :
        (/\ b.type = "numbered_list_item"
         /\ b.parent \in {"none", "numbered_list_item",
                          "bulleted_list_item", "toggle"})
          => \A k \in LinesOf(b.path) :
               rout[k].mark = ToString(b.run) \o ". "

\* The case of C24 at the top level, which the code meets.
C24_TopLevelRunsCountFromOne ==
    Rendered =>
      \A b \in Placed :
        (b.type = "numbered_list_item" /\ b.parent = "none")
          => /\ LinesOf(b.path) # {}
             /\ \A k \in LinesOf(b.path) :
                  rout[k].mark = ToString(b.run) \o ". "

(***************************************************************************)
(* extractPageTitle (src/lib/notion-sync.ts 25-46).                        *)
(***************************************************************************)
TitleTexts == {"a", "b"}

RECURSIVE SeqsUpTo(_, _)
SeqsUpTo(S, n) ==
    IF n = 0
    THEN {<<>>}
    ELSE LET shorter == SeqsUpTo(S, n - 1)
         IN shorter \cup {Append(q, x) : q \in shorter, x \in S}

\* The values a property of the remote page can have: a title, a rich text
\* and a multi-select hold a list of entries that may be empty, a select
\* holds an option or none, and a number is of a type the function does not
\* know.
PropertyValues(n) ==
    {[type |-> "title", title |-> q] : q \in SeqsUpTo(TitleTexts, n)}
    \cup {[type |-> "rich_text", rich_text |-> q] :
            q \in SeqsUpTo(TitleTexts, n)}
    \cup {[type |-> "select", select |-> q] : q \in SeqsUpTo(TitleTexts, 1)}
    \cup {[type |-> "multi_select", multi_select |-> q] :
            q \in SeqsUpTo(TitleTexts, n)}
    \cup {[type |-> "number", number |-> 0]}

NullTitle == [called |-> TRUE, value |-> "null"]

TitleText(text) == [called |-> TRUE, value |-> text]

\* prop.title[0]?.plain_text || null, and the like.
FirstOrNull(entries) ==
    IF entries = <<>> THEN NullTitle ELSE TitleText(entries[1])

\* The loop of extractPageTitle from the i-th candidate on (lines 28-44).
RECURSIVE ExtractFrom(_, _)
ExtractFrom(props, i) ==
    IF i > Len(possibleTitleKeys)
    THEN NullTitle
    ELSE LET prop == props[possibleTitleKeys[i]]
         IN IF prop = Absent
            THEN ExtractFrom(props, i + 1)
            ELSE CASE prop.type = "title" -> FirstOrNull(prop.title)
                   [] prop.type = "rich_text" -> FirstOrNull(prop.rich_text)
                   [] prop.type = "select" -> FirstOrNull(prop.select)
                   [] prop.type = "multi_select" ->
                        FirstOrNull(prop.multi_select)
                   [] OTHER -> ExtractFrom(props, i + 1)

extractPageTitle(props) == ExtractFrom(props, 1)

\* The remote page gains a property under one of the candidate names.
X_SetProperty ==
    /\ pageTitle = NotCalled
    /\ \E i \in 1..Len(possibleTitleKeys), v \in PropertyValues(MaxEntries) :
         /\ properties[possibleTitleKeys[i]] = Absent
         /\ properties' = [properties EXCEPT ![possibleTitleKeys[i]] = v]
    /\ UNCHANGED pageTitle
    /\ UNCHANGED treeVars
    /\ UNCHANGED sysVars
    /\ UNCHANGED renderVars

X_Extract ==
    /\ pageTitle = NotCalled
    /\ pageTitle' = extractPageTitle(properties)
    /\ UNCHANGED properties
    /\ UNCHANGED treeVars
    /\ UNCHANGED sysVars
    /\ UNCHANGED renderVars

InitTitle ==
    /\ InitSystem
    /\ cacheDown = FALSE
    /\ store = [p \in Pages |-> NoRow]
    /\ RenderIdle

NextTitle ==
    \/ X_SetProperty
    \/ X_Extract

SpecTitle == InitTitle /\ [][NextTitle]_vars

\* The entries of a property of one of the types the function knows.
EntriesOf(prop) ==
    CASE prop.type = "title" -> prop.title
      [] prop.type = "rich_text" -> prop.rich_text
      [] prop.type = "select" -> prop.select
      [] prop.type = "multi_select" -> prop.multi_select
      [] OTHER -> <<>>

\* The candidates, by position, that are present with a value that is not
\* empty.
NonEmptyCandidates ==
    {i \in 1..Len(possibleTitleKeys) :
       EntriesOf(properties[possibleTitleKeys[i]]) # <<>>}

\* The candidates that are present and of a known type, but empty.
EmptyCandidates ==
    {i \in 1..Len(possibleTitleKeys) :
       LET prop == properties[possibleTitleKeys[i]]
       IN /\ prop.type \in {"title", "rich_text", "select", "multi_select"}
          /\ EntriesOf(prop) = <<>>}

Least(S) == CHOOSE i \in S : \A j \in S : i <= j

FirstNonEmptyValue ==
    IF NonEmptyCandidates = {}
    THEN NullTitle
    ELSE TitleText(
           EntriesOf(properties[possibleTitleKeys[Least(NonEmptyCandidates)]])[1])

\* C26: title extraction returns the value of the first candidate, in the
\* order Pages, "Pages ", Name, Title, that is present with a value that is
\* not empty, a present but empty candidate not stopping the search, and
\* null only when no candidate has such a value.
C26_FirstNonEmptyCandidate ==
    pageTitle # NotCalled => pageTitle = FirstNonEmptyValue

\* The case of C26 the code meets: no empty candidate comes before the first
\* that is not empty.
C26_FirstCandidateWhenNoneEmptyBefore ==
    (/\ pageTitle # NotCalled
     /\ \A i \in EmptyCandidates :
          NonEmptyCandidates # {} => Least(NonEmptyCandidates) < i)
       => pageTitle = FirstNonEmptyValue

(***************************************************************************)
(* Properties of the renderer on pages without nesting (SpecRenderFlat).   *)
(***************************************************************************)
\* The lines of the text of the blocks that are more than a line break.
VisibleLines == {k \in (HeadLen + 1)..Len(rout) : rout[k] # Blank}

\* The blocks of the page that have no content and no children.
EmptyBlocks ==
    {i \in 1..Len(rblocks) :
       rblocks[i].content = <<>> /\ BlockChildren(rblocks[i]) = <<>>}

\* C25: a block without content and without children, its children list
\* empty or absent, produces no output whatever its type: the text of a page
\* without nesting has one line that is not blank for every block that has
\* content, and no other.
C25_EmptyBlocksProduceNothing ==
    RenderedBlocks =>
       Cardinality(VisibleLines) = Len(rblocks) - Cardinality(EmptyBlocks)

\* The case of C25 the code meets: the empty blocks have no children field.
C25_EmptyBlocksWithoutChildrenField ==
    (/\ RenderedBlocks
     /\ \A i \in EmptyBlocks : SkippedBlock(rblocks[i]))
       => Cardinality(VisibleLines) = Len(rblocks) - Cardinality(EmptyBlocks)

(***************************************************************************)
(* More properties of the request handlers (Spec).                         *)
(***************************************************************************)
\* In this step the page-detail or plain-text read in slot i returns the
\* page.
ReadReturnsPage(i) ==
    /\ proc[i].pc # "done"
    /\ proc'[i].pc = "done"
    /\ proc'[i].kind \in {"get", "plain"}
    /\ ~proc'[i].sync
    /\ proc'[i].resp.status = 200

\* The row of the page belongs to another owner than u.
RowOfAnother(u) == store[P].present /\ store[P].user_id # u

\* C27: a page-detail or plain-text read by an owner never returns the
\* content of a page whose row belongs to a different owner, be the answer
\* served from the store or from the cache.
C27_ReadsReturnOwnRowsOnly ==
    [][\A i \in Slots :
         ReadReturnsPage(i) => ~RowOfAnother(proc[i].userId)]_vars

\* The case of C27 the code meets: the plain-text read served from the
\* store.
C27_StoreReadsReturnOwnRowsOnly ==
    [][\A i \in Slots :
         (ReadReturnsPage(i) /\ proc[i].pc = "t_select")
            => ~RowOfAnother(proc[i].userId)]_vars

(***************************************************************************)
(* Properties of the analysis of a synced page (SpecAnalysis).             *)
(***************************************************************************)
\* In this step the analysis request in slot i answers with success from pc.
AnalysisReturnsFrom(i, pc) ==
    /\ proc[i].kind = "analyze"
    /\ proc[i].pc = pc
    /\ proc'[i].pc = "done"
    /\ proc'[i].resp.status = 200

\* C28: an analysis request that returns the stored analysis without
\* recomputing it returns one that was made from the current plain text of
\* the page: once a sync has replaced the plain text, the analysis of the
\* previous one is not returned any more.
C28_StoredAnalysisIsOfCurrentText ==
    [][\A i \in Slots :
         AnalysisReturnsFrom(i, "a_select")
            => proc'[i].resp.ver = store[P].plain_text]_vars

\* The case of C28 the code meets: the analysis that was recomputed.
C28_RecomputedAnalysisIsOfCurrentText ==
    [][\A i \in Slots :
         (AnalysisReturnsFrom(i, "a_update") \/ AnalysisReturnsFrom(i, "a_del"))
            => proc'[i].resp.ver = store[P].plain_text]_vars

(***************************************************************************)
(* Properties of two syncs of one page at once (SpecTwoSyncs).             *)
(***************************************************************************)
BothReturned == \A i \in Slots : proc[i].pc = "s_done"

\* C29: two single-page syncs of the same page, not yet in the store, that
\* run at once with the remote source and the store healthy both return
\* true and leave one row of the page: the existence check followed by
\* insert or update behaves as one atomic upsert.
C29_BothSyncsReturnTrue ==
    BothReturned =>
       /\ store[P].present
       /\ \A i \in Slots : proc[i].result = "true"

\* What the code gives instead: one row, and one of the two returns true.
C29_OneSyncReturnsTrue ==
    BothReturned =>
       /\ store[P].present
       /\ \E i \in Slots : proc[i].result = "true"

(***************************************************************************)
(* More properties of the syncs (SpecBulk).                                *)
(***************************************************************************)
SyncPcs == {"s_retrieve", "s_blocks", "s_select", "s_write", "s_invd", "s_invl"}

\* The call of syncNotionPageToSupabase in slot i takes this step.
SyncStep(i) == proc[i].pc \in SyncPcs /\ proc'[i] # proc[i]

\* C30: a call of single-page sync that returns false has changed nothing,
\* neither the row of the page nor a cache entry: a step of a call that
\* changes the store or the cache marks the call as having written, the
\* mark stays, and no call that has it returns false.
C30_FalseSyncChangedNothing ==
    /\ [](\A i \in Procs : proc[i].result = "false" => ~proc[i].wrote)
    /\ [][\A i \in Procs :
            SyncStep(i) =>
               /\ (store' # store \/ cache' # cache) => proc'[i].wrote
               /\ proc[i].wrote => proc'[i].wrote]_vars

\* A sync that found the row of its page and failed to update it has
\* returned false.
C30_Witness ==
    \E i \in Procs :
       /\ proc[i].pc = "s_done"
       /\ proc[i].result = "false"
       /\ proc[i].existing
       /\ store[i].present

====
